---- MODULE Spec2Model ----
(***************************************************************************)
(* A model of @turbodocx/next-plugin-llms: route discovery (scanner),      *)
(* section assembly and ordering, document rendering (generator), content  *)
(* extraction (content-processor) and the endpoint wrapper.                *)
(*                                                                         *)
(* Text is modelled as a sequence of one-character strings, so that the    *)
(* regular-expression replacements of the source are computed character by *)
(* character, the way String.prototype.replace computes them.              *)
(***************************************************************************)
EXTENDS Integers, Sequences, FiniteSets, TLC

VARIABLES
  area,        \* which part of the program the behaviour exercises
  pc,          \* the position reached in that part
  dirNames,    \* scanner: the directory names from the app root down to a page
  relPath,     \* scanner: path.relative(appDir, dirname(filePath)) of that page
  urlPath,     \* scanner: the URL path filePathToUrlPath returned for it
  options,     \* the PluginOptions of the run
  routes,      \* the RouteInfo array handed from stage to stage
  sections,    \* scanner: the Map groupRoutesBySection returned
  doc,         \* generator: the parts of the document last rendered
  siteUrl,     \* buildUrl: the configured base URL (options.siteUrl)
  linkPath,    \* buildUrl: the URL path to resolve
  href,        \* buildUrl: the URL returned
  pages,       \* content-processor: the page files of the routes to enrich
  contentOptions, \* content-processor: the ContentOptions of the run
  enrichedRoutes, \* content-processor: the array enrichRoutesWithContent builds
  thrown,      \* content-processor: the error that ended the run, if any
  content,     \* endpoint wrapper: the document text to embed
  routeHandler, \* endpoint wrapper: the route.ts text generated for it
  plugin,      \* index: the LLMsTxtWebpackPlugin instance and its compiler
  perPage,     \* per-page generator: the state of generatePerPageRoutes
  run,         \* index: the state of one call of generateLLMFiles
  custom,      \* generator: the state of the custom-file loop
  meta,        \* metadata-extractor: a route and the title derived for it
  render,      \* generator: the routes and options of one rendering, and its document
  scan         \* scanner: the app tree, the exclude patterns and the routes found

pathVars == <<dirNames, relPath, urlPath>>
orderVars == <<options, routes, sections, doc>>
urlVars == <<siteUrl, linkPath, href>>
contentVars == <<pages, contentOptions, enrichedRoutes, thrown>>
wrapVars == <<content, routeHandler>>
earlierVars == <<pathVars, orderVars, urlVars, contentVars, wrapVars>>
laterVars == <<plugin, perPage, run, custom, meta, render, scan>>

vars == <<area, pc, earlierVars, laterVars>>

--------------------------------------------------------------------------
(* Bounds of the model *)

\* the longest directory path, in segments, given to filePathToUrlPath
MaxSegments == 3

\* the most content sources in options.sources
MaxSources == 2

\* the most routes in the array given to sorting, grouping and rendering
MaxRoutes == 3

\* the most routes in the array given to enrichRoutesWithContent
MaxPages == 2

\* the longest document text given to generateRouteHandlerFile
MaxContent == 3

\* the most firings of the beforeCompile hook on one compiler
MaxFirings == 8

--------------------------------------------------------------------------
(* Text helpers: String.prototype methods on sequences of characters *)

\* the absent value (undefined) of an optional field
Undefined == <<"undefined">>

\* the backtick character U+0060, which a TLA+ string cannot hold
Backtick == "U+0060"

\* characters matched by \w in the names used by the model
WordChars == {"a", "b", "c", "d", "g", "i", "s", "x", "_"}

\* index of the first occurrence of character c in s at or after from, else 0
RECURSIVE IndexOfChar(_, _, _)
IndexOfChar(s, c, from) ==
  IF from > Len(s) THEN 0
  ELSE IF s[from] = c THEN from
  ELSE IndexOfChar(s, c, from + 1)

\* s.startsWith(p) at position i (1-based)
MatchesAt(s, p, i) ==
  /\ i >= 1
  /\ i + Len(p) - 1 <= Len(s)
  /\ \A k \in 1..Len(p) : s[i + k - 1] = p[k]

StartsWith(s, p) == MatchesAt(s, p, 1)

EndsWith(s, p) == Len(p) <= Len(s) /\ MatchesAt(s, p, Len(s) - Len(p) + 1)

\* s.includes(p)
Includes(s, p) == \E i \in 1..(Len(s) + 1) : MatchesAt(s, p, i)

\* s.slice(i) with a 1-based start
From(s, i) == SubSeq(s, i, Len(s))

\* end of the maximal run of \w characters starting at i (i - 1 when empty)
RECURSIVE WordRunEnd(_, _)
WordRunEnd(s, i) ==
  IF i <= Len(s) /\ s[i] \in WordChars THEN WordRunEnd(s, i + 1) ELSE i - 1

\* parts.join(sep), the array being joined by halves
RECURSIVE Join(_, _)
Join(parts, sep) ==
  IF Len(parts) = 0 THEN <<>>
  ELSE IF Len(parts) = 1 THEN parts[1]
  ELSE LET half == Len(parts) \div 2
       IN Join(SubSeq(parts, 1, half), sep) \o sep
            \o Join(SubSeq(parts, half + 1, Len(parts)), sep)

--------------------------------------------------------------------------
(* scanner: filePathToUrlPath *)

\* urlPath.replace(/\\/g, '/')
RECURSIVE NormalizeSeparators(_)
NormalizeSeparators(s) ==
  IF Len(s) = 0 THEN <<>>
  ELSE <<IF s[1] = "\\" THEN "/" ELSE s[1]>> \o NormalizeSeparators(Tail(s))

\* last index of a match of /\([^)]+\)\/?/ starting at i, 0 when none
GroupMatchEnd(s, i) ==
  IF i > Len(s) \/ s[i] # "(" THEN 0
  ELSE LET j == IndexOfChar(s, ")", i + 1)
       IN IF j = 0 \/ j = i + 1 THEN 0
          ELSE IF j + 1 <= Len(s) /\ s[j + 1] = "/" THEN j + 1 ELSE j

\* urlPath.replace(/\([^)]+\)\/?/g, '') scanning from i
RECURSIVE RemoveRouteGroupsFrom(_, _)
RemoveRouteGroupsFrom(s, i) ==
  IF i > Len(s) THEN <<>>
  ELSE LET e == GroupMatchEnd(s, i)
       IN IF e > 0 THEN RemoveRouteGroupsFrom(s, e + 1)
          ELSE <<s[i]>> \o RemoveRouteGroupsFrom(s, i + 1)

RemoveRouteGroups(s) == RemoveRouteGroupsFrom(s, 1)

\* last index of a match of /\[\[\.\.\.([\w]+)\]\]/ starting at i, 0 when none
OptionalCatchAllEnd(s, i) ==
  IF ~MatchesAt(s, <<"[", "[", ".", ".", ".">>, i) THEN 0
  ELSE LET k == WordRunEnd(s, i + 5)
       IN IF k >= i + 5 /\ MatchesAt(s, <<"]", "]">>, k + 1) THEN k + 2 ELSE 0

\* urlPath.replace(/\[\[\.\.\.([\w]+)\]\]/g, ':$1') scanning from i
RECURSIVE ConvertOptionalCatchAllFrom(_, _)
ConvertOptionalCatchAllFrom(s, i) ==
  IF i > Len(s) THEN <<>>
  ELSE LET e == OptionalCatchAllEnd(s, i)
       IN IF e > 0
          THEN <<":">> \o SubSeq(s, i + 5, e - 2) \o ConvertOptionalCatchAllFrom(s, e + 1)
          ELSE <<s[i]>> \o ConvertOptionalCatchAllFrom(s, i + 1)

ConvertOptionalCatchAll(s) == ConvertOptionalCatchAllFrom(s, 1)

\* last index of a match of /\[\.\.\.([\w]+)\]/ starting at i, 0 when none
CatchAllEnd(s, i) ==
  IF ~MatchesAt(s, <<"[", ".", ".", ".">>, i) THEN 0
  ELSE LET k == WordRunEnd(s, i + 4)
       IN IF k >= i + 4 /\ MatchesAt(s, <<"]">>, k + 1) THEN k + 1 ELSE 0

\* urlPath.replace(/\[\.\.\.([\w]+)\]/g, '*') scanning from i
RECURSIVE ConvertCatchAllFrom(_, _)
ConvertCatchAllFrom(s, i) ==
  IF i > Len(s) THEN <<>>
  ELSE LET e == CatchAllEnd(s, i)
       IN IF e > 0 THEN <<"*">> \o ConvertCatchAllFrom(s, e + 1)
          ELSE <<s[i]>> \o ConvertCatchAllFrom(s, i + 1)

ConvertCatchAll(s) == ConvertCatchAllFrom(s, 1)

\* last index of a match of /\[([^\]]+)\]/ starting at i, 0 when none
DynamicEnd(s, i) ==
  IF i > Len(s) \/ s[i] # "[" THEN 0
  ELSE LET j == IndexOfChar(s, "]", i + 1)
       IN IF j = 0 \/ j = i + 1 THEN 0 ELSE j

\* urlPath.replace(/\[([^\]]+)\]/g, ':$1') scanning from i
RECURSIVE ConvertDynamicFrom(_, _)
ConvertDynamicFrom(s, i) ==
  IF i > Len(s) THEN <<>>
  ELSE LET e == DynamicEnd(s, i)
       IN IF e > 0
          THEN <<":">> \o SubSeq(s, i + 1, e - 1) \o ConvertDynamicFrom(s, e + 1)
          ELSE <<s[i]>> \o ConvertDynamicFrom(s, i + 1)

ConvertDynamic(s) == ConvertDynamicFrom(s, 1)

\* if (!urlPath.startsWith('/')) urlPath = '/' + urlPath
EnsureLeadingSlash(s) == IF StartsWith(s, <<"/">>) THEN s ELSE <<"/">> \o s

filePathToUrlPath(filePath) ==
  LET normalized == NormalizeSeparators(filePath)
      noGroups   == RemoveRouteGroups(normalized)
      optional   == ConvertOptionalCatchAll(noGroups)
      catchAll   == ConvertCatchAll(optional)
      dynamicSeg == ConvertDynamic(catchAll)
      slashed    == EnsureLeadingSlash(dynamicSeg)
  IN IF slashed = <<"/">> \/ slashed = <<>> THEN <<"/">> ELSE slashed

--------------------------------------------------------------------------
(* minimatch(path, pattern): the glob matcher the scanner imports.  Path   *)
(* and pattern are split on "/"; a "**" segment matches any number of path *)
(* segments (at least one when it ends the pattern), "*" inside a segment  *)
(* any run of characters of that segment; with the dot option off, as      *)
(* here, a segment that begins with "." is matched only by a pattern       *)
(* segment that begins with "." and is never swallowed by "**".            *)

\* s.split(sep) for a one-character separator
RECURSIVE SplitFrom(_, _, _, _)
SplitFrom(s, sep, i, cur) ==
  IF i > Len(s) THEN <<cur>>
  ELSE IF s[i] = sep THEN <<cur>> \o SplitFrom(s, sep, i + 1, <<>>)
  ELSE SplitFrom(s, sep, i + 1, Append(cur, s[i]))

Split(s, sep) == SplitFrom(s, sep, 1, <<>>)

\* one path segment against one pattern segment ("*" is a wildcard)
RECURSIVE SegmentMatch(_, _)
SegmentMatch(seg, pat) ==
  IF Len(pat) = 0 THEN Len(seg) = 0
  ELSE IF pat[1] = "*"
       THEN \/ SegmentMatch(seg, Tail(pat))
            \/ (Len(seg) > 0 /\ SegmentMatch(Tail(seg), pat))
  ELSE Len(seg) > 0 /\ seg[1] = pat[1] /\ SegmentMatch(Tail(seg), Tail(pat))

\* a name that begins with "."
IsDotName(seg) == Len(seg) > 0 /\ seg[1] = "."

RECURSIVE GlobMatch(_, _)
GlobMatch(segs, pats) ==
  IF Len(pats) = 0 THEN Len(segs) = 0
  ELSE IF pats[1] = <<"*", "*">>
       THEN IF Len(pats) = 1
            THEN Len(segs) > 0 /\ \A k \in 1..Len(segs) : ~IsDotName(segs[k])
            ELSE \/ GlobMatch(segs, Tail(pats))
                 \/ (Len(segs) > 0 /\ ~IsDotName(segs[1]) /\ GlobMatch(Tail(segs), pats))
  ELSE /\ Len(segs) > 0
       /\ IsDotName(segs[1]) => IsDotName(pats[1])
       /\ SegmentMatch(segs[1], pats[1])
       /\ GlobMatch(Tail(segs), Tail(pats))

minimatch(path, pattern) == GlobMatch(Split(path, "/"), Split(pattern, "/"))

--------------------------------------------------------------------------
(* scanner: groupRoutesBySection and sortRoutesByPriority *)

\* process.cwd()
Cwd == <<"/", "w">>

\* path.resolve(process.cwd(), options.appDir || 'app')
AppDir == Cwd \o <<"/", "a", "p", "p">>

\* s.replace(p, '') for a string p: the first occurrence only
RECURSIVE RemoveFirstFrom(_, _, _)
RemoveFirstFrom(s, p, i) ==
  IF i > Len(s) THEN <<>>
  ELSE IF MatchesAt(s, p, i) THEN From(s, i + Len(p))
  ELSE <<s[i]>> \o RemoveFirstFrom(s, p, i + 1)

RemoveFirst(s, p) == IF Len(p) = 0 THEN s ELSE RemoveFirstFrom(s, p, 1)

\* route.filePath.replace(process.cwd(), '').replace(/^\//, '')
RelativeToCwd(filePath) ==
  LET stripped == RemoveFirst(filePath, Cwd)
  IN IF StartsWith(stripped, <<"/">>) THEN Tail(stripped) ELSE stripped

\* minimatch(relativePath, pattern) || minimatch(relativePath, `**/${pattern}`)
MatchesSource(route, source) ==
  LET relativePath == RelativeToCwd(route.filePath)
  IN \/ minimatch(relativePath, source.pattern)
     \/ minimatch(relativePath, <<"*", "*", "/">> \o source.pattern)

\* Map.prototype.set(key, value) on an insertion-ordered list of entries
MapSet(m, key, value) ==
  IF \E k \in 1..Len(m) : m[k].section = key
  THEN [k \in 1..Len(m) |->
          IF m[k].section = key THEN [section |-> key, routes |-> value] ELSE m[k]]
  ELSE Append(m, [section |-> key, routes |-> value])

MapHas(m, key) == \E k \in 1..Len(m) : m[k].section = key

\* sections.get(key)?.push(route)
MapPush(m, key, route) ==
  [k \in 1..Len(m) |->
     IF m[k].section = key
     THEN [section |-> key, routes |-> Append(m[k].routes, route)]
     ELSE m[k]]

\* for (const source of options.sources) sections.set(source.section, [])
RECURSIVE CreateSections(_, _)
CreateSections(m, srcs) ==
  IF Len(srcs) = 0 THEN m
  ELSE CreateSections(MapSet(m, srcs[1].section, <<>>), Tail(srcs))

\* FirstMatch with the break left out: the last matching source is returned
RECURSIVE FirstMatchNoBreak(_, _, _)
FirstMatchNoBreak(route, srcs, i) ==
  IF i > Len(srcs) THEN 0
  ELSE LET later == FirstMatchNoBreak(route, srcs, i + 1)
       IN IF later > 0 THEN later
          ELSE IF MatchesSource(route, srcs[i]) THEN i ELSE 0

\* index of the first source that matches the route, 0 when none (the loop
\* over options.sources that ends with break)
RECURSIVE FirstMatch(_, _, _)
FirstMatch(route, srcs, i) ==
  IF i > Len(srcs) THEN 0
  ELSE IF MatchesSource(route, srcs[i]) THEN i
  ELSE FirstMatch(route, srcs, i + 1)

PagesSection == <<"P", "a", "g", "e", "s">>

\* the loop "for (const route of routes)" of groupRoutesBySection
RECURSIVE AssignRoutes(_, _, _)
AssignRoutes(m, rs, srcs) ==
  IF Len(rs) = 0 THEN m
  ELSE LET i == FirstMatch(rs[1], srcs, 1)
           key == IF i > 0 THEN srcs[i].section ELSE PagesSection
       IN AssignRoutes(MapPush(m, key, rs[1]), Tail(rs), srcs)

\* for (const [section, routes] of sections.entries()) delete when empty
RemoveEmptySections(m) == SelectSeq(m, LAMBDA e : Len(e.routes) > 0)

groupRoutesBySection(rs, srcs) ==
  LET created == CreateSections(MapSet(<<>>, PagesSection, <<>>), srcs)
  IN RemoveEmptySections(AssignRoutes(created, rs, srcs))

\* priorityMap[source.priority || 'medium']
priorityMap(priority) ==
  CASE priority = "high" -> 3
    [] priority = "medium" -> 2
    [] priority = "low" -> 1
    [] OTHER -> 2

\* the comparator's loop over options.sources: every matching source assigns
\* the priority in turn (the loop has no break)
RECURSIVE RoutePriority(_, _, _)
RoutePriority(route, srcs, current) ==
  IF Len(srcs) = 0 THEN current
  ELSE RoutePriority(route, Tail(srcs),
         IF MatchesSource(route, srcs[1])
         THEN priorityMap(srcs[1].priority) ELSE current)

\* rank of the characters of the model's URL paths under localeCompare
CharRank(c) ==
  CASE c = "/" -> 1
    [] c = "a" -> 2
    [] c = "b" -> 3
    [] c = "p" -> 4
    [] c = "x" -> 5
    [] OTHER -> 6

\* a.localeCompare(b) < 0
RECURSIVE LocaleLess(_, _)
LocaleLess(a, b) ==
  IF Len(b) = 0 THEN FALSE
  ELSE IF Len(a) = 0 THEN TRUE
  ELSE IF a[1] = b[1] THEN LocaleLess(Tail(a), Tail(b))
  ELSE CharRank(a[1]) < CharRank(b[1])

\* the comparator of sortRoutesByPriority returns a negative number
ComesBefore(a, b, srcs) ==
  LET aPriority == RoutePriority(a, srcs, 2)
      bPriority == RoutePriority(b, srcs, 2)
  IN IF aPriority # bPriority THEN bPriority < aPriority
     ELSE LocaleLess(a.urlPath, b.urlPath)

\* Array.prototype.sort is stable: r goes after every element it does not
\* come before
RECURSIVE InsertSorted(_, _, _)
InsertSorted(sorted, r, srcs) ==
  IF Len(sorted) = 0 THEN <<r>>
  ELSE IF ComesBefore(r, sorted[1], srcs) THEN <<r>> \o sorted
  ELSE <<sorted[1]>> \o InsertSorted(Tail(sorted), r, srcs)

RECURSIVE SortFrom(_, _, _)
SortFrom(sorted, rest, srcs) ==
  IF Len(rest) = 0 THEN sorted
  ELSE SortFrom(InsertSorted(sorted, rest[1], srcs), Tail(rest), srcs)

sortRoutesByPriority(rs, srcs) == SortFrom(<<>>, rs, srcs)

--------------------------------------------------------------------------
(* metadata-extractor: getBestTitle and getBestDescription *)

\* a string that is neither undefined nor empty
Truthy(t) == t # Undefined /\ t # <<>>

Whitespace == {" ", "\n", "\t"}

\* route.metadata?.[f]
MetaField(route, f) ==
  IF "metadata" \in DOMAIN route /\ f \in DOMAIN route.metadata
  THEN route.metadata[f] ELSE Undefined

\* route.metadata?.openGraph?.[f]
OpenGraphField(route, f) ==
  IF /\ "metadata" \in DOMAIN route
     /\ "openGraph" \in DOMAIN route.metadata
     /\ f \in DOMAIN route.metadata.openGraph
  THEN route.metadata.openGraph[f] ELSE Undefined

RECURSIVE TrimStart(_)
TrimStart(s) ==
  IF Len(s) > 0 /\ s[1] \in Whitespace THEN TrimStart(Tail(s)) ELSE s

RECURSIVE TrimEnd(_)
TrimEnd(s) ==
  IF Len(s) > 0 /\ s[Len(s)] \in Whitespace
  THEN TrimEnd(SubSeq(s, 1, Len(s) - 1)) ELSE s

\* s.trim()
Trim(s) == TrimEnd(TrimStart(s))

\* title.replace(/\s*\|.*$/, ''): cut at the leftmost match
RemoveTemplateSuffix(s) ==
  LET starts == {i \in 1..Len(s) :
                   \E k \in i..Len(s) :
                     /\ \A j \in i..(k - 1) : s[j] \in Whitespace
                     /\ s[k] = "|"
                     /\ \A j \in (k + 1)..Len(s) : s[j] # "\n"}
  IN IF starts = {} THEN s
     ELSE SubSeq(s, 1, (CHOOSE i \in starts : \A j \in starts : i <= j) - 1)

LowerCaseLetters ==
  <<"a", "b", "c", "d", "e", "f", "g", "h", "i", "j", "k", "l", "m",
    "n", "o", "p", "q", "r", "s", "t", "u", "v", "w", "x", "y", "z">>

UpperCaseLetters ==
  <<"A", "B", "C", "D", "E", "F", "G", "H", "I", "J", "K", "L", "M",
    "N", "O", "P", "Q", "R", "S", "T", "U", "V", "W", "X", "Y", "Z">>

\* c.toUpperCase()
ToUpperCase(c) ==
  IF \E k \in 1..26 : LowerCaseLetters[k] = c
  THEN UpperCaseLetters[CHOOSE k \in 1..26 : LowerCaseLetters[k] = c]
  ELSE c

\* word.charAt(0).toUpperCase() + word.slice(1)
Capitalize(word) ==
  IF Len(word) = 0 THEN <<>> ELSE <<ToUpperCase(word[1])>> \o Tail(word)

getBestTitle(route) ==
  IF Truthy(MetaField(route, "title"))
  THEN Trim(RemoveTemplateSuffix(MetaField(route, "title")))
  ELSE IF Truthy(OpenGraphField(route, "title"))
  THEN OpenGraphField(route, "title")
  ELSE LET segments == SelectSeq(Split(route.urlPath, "/"), LAMBDA sg : Len(sg) > 0)
       IN IF Len(segments) = 0 THEN <<"H", "o", "m", "e">>
          ELSE LET words == Split(segments[Len(segments)], "-")
               IN Join([k \in 1..Len(words) |-> Capitalize(words[k])], <<" ">>)

getBestDescription(route) ==
  IF Truthy(MetaField(route, "description")) THEN MetaField(route, "description")
  ELSE IF Truthy(OpenGraphField(route, "description"))
  THEN OpenGraphField(route, "description")
  ELSE Undefined

--------------------------------------------------------------------------
(* content-processor: formatContentForLLM *)

\* '#'.repeat(n)
RECURSIVE Repeat(_, _)
Repeat(c, n) == IF n <= 0 THEN <<>> ELSE <<c>> \o Repeat(c, n - 1)

\* route[f] of an optional text field
TextField(route, f) == IF f \in DOMAIN route THEN route[f] ELSE Undefined

RouteHeadings(route) == IF "headings" \in DOMAIN route THEN route.headings ELSE <<>>

formatContentForLLM(route) ==
  LET hs == RouteHeadings(route)
      headingParts ==
        [k \in 1..Len(hs) |-> Repeat("#", hs[k].level) \o <<" ">> \o hs[k].text]
      contentParts ==
        IF Truthy(TextField(route, "content")) THEN <<route.content>> ELSE <<>>
  IN Join(headingParts \o contentParts, <<"\n", "\n">>)

--------------------------------------------------------------------------
(* content-processor: processContent, fallbackContentExtraction,           *)
(* parseHeadings. A page file is what fs and the Babel parser make of it:  *)
(* missing, a module (the nodes and the JSX elements the traversal visits, *)
(* in order), or text the parser rejects.                                  *)

\* maxContentLength = 50000 of the destructured options
DefaultMaxContentLength == 50000

MaxContentLengthOf(opts) ==
  IF "maxContentLength" \in DOMAIN opts
  THEN opts.maxContentLength ELSE DefaultMaxContentLength

\* if (text.length > max) text = text.substring(0, max) + '...'
Truncate(text, max) ==
  IF Len(text) > max THEN SubSeq(text, 1, max) \o <<".", ".", ".">> ELSE text

\* end of the maximal run of characters of cs starting at i (i - 1 when empty)
RECURSIVE RunEnd(_, _, _)
RunEnd(s, i, cs) ==
  IF i <= Len(s) /\ s[i] \in cs THEN RunEnd(s, i + 1, cs) ELSE i - 1

\* the value a visitor looks at: node.value, or the cooked quasis joined
NodeText(node) ==
  IF node.type = "TemplateLiteral" THEN Join(node.quasis, <<" ">>) ELSE node.value

\* the extractedText array after the traversal: the trimmed value of every
\* StringLiteral, TemplateLiteral and JSXText whose trimmed value is not empty
RECURSIVE ExtractedText(_)
ExtractedText(nodes) ==
  IF Len(nodes) = 0 THEN <<>>
  ELSE LET value == Trim(NodeText(nodes[1]))
       IN (IF Len(value) > 0 THEN <<value>> ELSE <<>>) \o ExtractedText(Tail(nodes))

\* replace(/\n{3,}/g, '\n\n')
RECURSIVE CollapseNewlinesFrom(_, _)
CollapseNewlinesFrom(s, i) ==
  IF i > Len(s) THEN <<>>
  ELSE LET j == RunEnd(s, i, {"\n"})
       IN IF j - i + 1 >= 3 THEN <<"\n", "\n">> \o CollapseNewlinesFrom(s, j + 1)
          ELSE <<s[i]>> \o CollapseNewlinesFrom(s, i + 1)

CollapseNewlines(s) == CollapseNewlinesFrom(s, 1)

\* replace(/\s{2,}/g, ' ')
RECURSIVE CollapseWhitespaceFrom(_, _)
CollapseWhitespaceFrom(s, i) ==
  IF i > Len(s) THEN <<>>
  ELSE LET j == RunEnd(s, i, Whitespace)
       IN IF j - i + 1 >= 2 THEN <<" ">> \o CollapseWhitespaceFrom(s, j + 1)
          ELSE <<s[i]>> \o CollapseWhitespaceFrom(s, i + 1)

CollapseWhitespace(s) == CollapseWhitespaceFrom(s, 1)

\* processedContent before the truncation
CleanedText(nodes) ==
  CollapseWhitespace(CollapseNewlines(Join(ExtractedText(nodes), <<"\n", "\n">>)))

\* a returned value, or the error that left the function
Returned(value) == [value |-> value]
Threw(error) == [error |-> error]

\* processContent; when parse throws, the catch block reads routeInfo,
\* which no scope of processContent declares: evaluating the warning's
\* template literal throws a ReferenceError before the fallback is called
processContent(file, opts) ==
  IF file.kind = "unparsable" THEN Threw("ReferenceError")
  ELSE Returned(Truncate(CleanedText(file.nodes), MaxContentLengthOf(opts)))

extractPageContent(file, opts) ==
  IF file.kind = "missing" THEN Returned(Undefined) ELSE processContent(file, opts)

\* index of the last character of the line that position i is on
LineEnd(s, i) ==
  LET nl == IndexOfChar(s, "\n", i) IN IF nl = 0 THEN Len(s) ELSE nl - 1

\* least index >= i where p occurs in s, 0 when there is none
RECURSIVE FindFrom(_, _, _)
FindFrom(s, p, i) ==
  IF i + Len(p) - 1 > Len(s) THEN 0
  ELSE IF MatchesAt(s, p, i) THEN i
  ELSE FindFrom(s, p, i + 1)

\* replace(/^import\s+.*$/gm, '')
RECURSIVE RemoveImportsFrom(_, _)
RemoveImportsFrom(s, i) ==
  IF i > Len(s) THEN <<>>
  ELSE IF /\ (i = 1 \/ s[i - 1] = "\n")
          /\ MatchesAt(s, <<"i", "m", "p", "o", "r", "t">>, i)
          /\ i + 6 <= Len(s)
          /\ s[i + 6] \in Whitespace
       THEN RemoveImportsFrom(s, LineEnd(s, RunEnd(s, i + 6, Whitespace) + 1) + 1)
       ELSE <<s[i]>> \o RemoveImportsFrom(s, i + 1)

RemoveImports(s) == RemoveImportsFrom(s, 1)

\* replace(/\/\*[\s\S]*?\*\//g, '')
RECURSIVE RemoveBlockCommentsFrom(_, _)
RemoveBlockCommentsFrom(s, i) ==
  IF i > Len(s) THEN <<>>
  ELSE LET close == IF MatchesAt(s, <<"/", "*">>, i)
                    THEN FindFrom(s, <<"*", "/">>, i + 2) ELSE 0
       IN IF close > 0 THEN RemoveBlockCommentsFrom(s, close + 2)
          ELSE <<s[i]>> \o RemoveBlockCommentsFrom(s, i + 1)

RemoveBlockComments(s) == RemoveBlockCommentsFrom(s, 1)

\* replace(/\/\/.*/g, '')
RECURSIVE RemoveLineCommentsFrom(_, _)
RemoveLineCommentsFrom(s, i) ==
  IF i > Len(s) THEN <<>>
  ELSE IF MatchesAt(s, <<"/", "/">>, i) THEN RemoveLineCommentsFrom(s, LineEnd(s, i) + 1)
  ELSE <<s[i]>> \o RemoveLineCommentsFrom(s, i + 1)

RemoveLineComments(s) == RemoveLineCommentsFrom(s, 1)

Quotes == {"'", "\"", Backtick}

\* match of the quoted-string pattern ('...', "..." or a template literal
\* without a backtick inside), global, with slice(1, -1) applied to
\* every match
RECURSIVE QuotedStringsFrom(_, _)
QuotedStringsFrom(s, i) ==
  IF i > Len(s) THEN <<>>
  ELSE LET close == IF s[i] \in Quotes THEN IndexOfChar(s, s[i], i + 1) ELSE 0
       IN IF close > 0
          THEN <<SubSeq(s, i + 1, close - 1)>> \o QuotedStringsFrom(s, close + 1)
          ELSE QuotedStringsFrom(s, i + 1)

\* filter((s) => s.trim().length > 0)
RECURSIVE NonBlank(_)
NonBlank(texts) ==
  IF Len(texts) = 0 THEN <<>>
  ELSE (IF Len(Trim(texts[1])) > 0 THEN <<texts[1]>> ELSE <<>>) \o NonBlank(Tail(texts))

\* extractedText of fallbackContentExtraction, before the truncation
FallbackText(text) ==
  LET processed == RemoveLineComments(RemoveBlockComments(RemoveImports(text)))
  IN Join(NonBlank(QuotedStringsFrom(processed, 1)), <<"\n", "\n">>)

fallbackContentExtraction(text, opts) ==
  Truncate(FallbackText(text), MaxContentLengthOf(opts))

\* tag.match(/^h([1-6])$/) and parseInt of the digit; 0 when no match
HeadingLevel(tag) ==
  IF Len(tag) = 2 /\ tag[1] = "h" /\ tag[2] \in {"1", "2", "3", "4", "5", "6"}
  THEN CHOOSE n \in 1..6 : <<"1", "2", "3", "4", "5", "6">>[n] = tag[2]
  ELSE 0

\* the text of a heading element: its JSXText children, trimmed, joined
HeadingText(children) ==
  LET RECURSIVE Texts(_)
      Texts(cs) ==
        IF Len(cs) = 0 THEN <<>>
        ELSE (IF cs[1].type = "JSXText" THEN <<Trim(cs[1].value)>> ELSE <<>>)
               \o Texts(Tail(cs))
  IN Join(Texts(children), <<" ">>)

\* the JSXElement visitor of parseHeadings over the elements of a module
RECURSIVE HeadingsOf(_)
HeadingsOf(elements) ==
  IF Len(elements) = 0 THEN <<>>
  ELSE LET el == elements[1]
           level == IF el.tagType = "JSXIdentifier" THEN HeadingLevel(el.tag) ELSE 0
           text == HeadingText(el.children)
       IN (IF level > 0 /\ Len(text) > 0
           THEN <<[level |-> level, text |-> text]>> ELSE <<>>)
            \o HeadingsOf(Tail(elements))

\* parseHeadings: a parse error is caught and leaves the array empty
parseHeadings(file) ==
  IF file.kind = "unparsable" THEN <<>> ELSE HeadingsOf(file.elements)

extractHeadings(file) ==
  IF file.kind = "missing" THEN <<>> ELSE parseHeadings(file)

--------------------------------------------------------------------------
(* generator: buildUrl, groupBySection, generateLLMsTxt, generateLLMsFullTxt *)

\* buildUrl of the document generator with baseUrl = siteUrl: the trailing
\* slash of the base is kept
buildUrlKeepSlash(path, site) ==
  IF ~Truthy(site) THEN path
  ELSE LET withSlash == IF StartsWith(path, <<"/">>) THEN path ELSE <<"/">> \o path
       IN site \o withSlash

\* buildUrl of the document generator
buildUrl(path, site) ==
  IF ~Truthy(site) THEN path
  ELSE LET baseUrl == IF EndsWith(site, <<"/">>)
                      THEN SubSeq(site, 1, Len(site) - 1) ELSE site
           withSlash == IF StartsWith(path, <<"/">>) THEN path ELSE <<"/">> \o path
       IN baseUrl \o withSlash

\* buildUrl of the per-page generator
buildUrlPerPage(path, site) ==
  IF ~Truthy(site) THEN path
  ELSE LET base == IF EndsWith(site, <<"/">>)
                   THEN SubSeq(site, 1, Len(site) - 1) ELSE site
           withSlash == IF StartsWith(path, <<"/">>) THEN path ELSE <<"/">> \o path
       IN base \o withSlash

\* route.filePath.includes(source.pattern.replace('**', ''))
IncludesSource(route, source) ==
  Includes(route.filePath, RemoveFirst(source.pattern, <<"*", "*">>))

RECURSIVE FirstIncluding(_, _, _)
FirstIncluding(route, srcs, i) ==
  IF i > Len(srcs) THEN 0
  ELSE IF IncludesSource(route, srcs[i]) THEN i
  ELSE FirstIncluding(route, srcs, i + 1)

\* the loop "for (const route of routes)" of groupBySection
RECURSIVE AssignBySection(_, _, _)
AssignBySection(m, rs, srcs) ==
  IF Len(rs) = 0 THEN m
  ELSE LET i == FirstIncluding(rs[1], srcs, 1)
           key == IF i > 0 THEN srcs[i].section ELSE PagesSection
       IN AssignBySection(MapPush(m, key, rs[1]), Tail(rs), srcs)

groupBySection(rs, srcs) ==
  LET created == CreateSections(<<>>, srcs)
      withPages == IF MapHas(created, PagesSection) THEN created
                   ELSE MapSet(created, PagesSection, <<>>)
  IN RemoveEmptySections(AssignBySection(withPages, rs, srcs))

\* the link line with the description appended unconditionally
LinkLineAlwaysSuffixed(title, url, description) ==
  <<"-", " ", "[">> \o title \o <<"]", "(">> \o url \o <<")">>
    \o <<":", " ">> \o description

\* `- [${title}](${url}): ${description}` or `- [${title}](${url})`
LinkLine(title, url, description) ==
  <<"-", " ", "[">> \o title \o <<"]", "(">> \o url \o <<")">>
    \o (IF Truthy(description) THEN <<":", " ">> \o description ELSE <<>>)

RouteLinkLine(route, site) ==
  LinkLine(getBestTitle(route), buildUrl(route.urlPath, site),
           getBestDescription(route))

\* the parts both renderers open with: the H1 and the optional blockquote
HeaderParts(opts) ==
  <<<<"#", " ">> \o (IF Truthy(opts.title) THEN opts.title
                     ELSE <<"D", "o", "c", "u", "m", "e", "n", "t", "a", "t", "i", "o", "n">>),
    <<>>>>
  \o (IF Truthy(opts.description)
      THEN <<<<">", " ">> \o opts.description, <<>>>> ELSE <<>>)

\* concatenation of a list of lists of parts
RECURSIVE Flatten(_)
Flatten(ls) ==
  IF Len(ls) = 0 THEN <<>>
  ELSE IF Len(ls) = 1 THEN ls[1]
  ELSE LET half == Len(ls) \div 2
       IN Flatten(SubSeq(ls, 1, half)) \o Flatten(SubSeq(ls, half + 1, Len(ls)))

OptionalParagraph(description) ==
  IF Truthy(description) THEN <<description, <<>>>> ELSE <<>>

\* one route section of the link index
IndexSectionParts(entry, site) ==
  <<<<"#", "#", " ">> \o entry.section, <<>>>>
  \o [k \in 1..Len(entry.routes) |-> RouteLinkLine(entry.routes[k], site)]
  \o <<<<>>>>

\* one custom section of the link index
IndexCustomParts(section) ==
  <<<<"#", "#", " ">> \o section.title, <<>>>>
  \o OptionalParagraph(section.description)
  \o [k \in 1..Len(section.items) |->
        LinkLine(section.items[k].title, section.items[k].url,
                 section.items[k].description)]
  \o <<<<>>>>

\* the parts array of generateLLMsTxt, before parts.join('\n')
generateLLMsTxt(rs, opts) ==
  LET sects == groupBySection(rs, opts.sources)
  IN HeaderParts(opts)
     \o Flatten([k \in 1..Len(sects) |-> IndexSectionParts(sects[k], opts.siteUrl)])
     \o Flatten([k \in 1..Len(opts.customSections) |->
                   IndexCustomParts(opts.customSections[k])])

NoticeLine ==
  <<"T", "h", "i", "s", " ", "f", "i", "l", "e", " ", "c", "o", "n", "t", "a",
    "i", "n", "s", " ", "a", "l", "l", " ", "d", "o", "c", "u", "m", "e", "n",
    "t", "a", "t", "i", "o", "n", " ", "c", "o", "n", "t", "e", "n", "t", " ",
    "i", "n", " ", "a", " ", "s", "i", "n", "g", "l", "e", " ", "d", "o", "c",
    "u", "m", "e", "n", "t", " ", "f", "o", "l", "l", "o", "w", "i", "n", "g",
    " ", "t", "h", "e", " ", "l", "l", "m", "s", "t", "x", "t", ".", "o", "r",
    "g", " ", "s", "t", "a", "n", "d", "a", "r", "d", ".">>

SeparatorLine == <<"-", "-", "-">>

UrlLine(url) == <<"U", "R", "L", ":", " ">> \o url

\* one route of the full digest
FullRouteParts(route, site) ==
  <<<<"#", "#", "#", " ">> \o getBestTitle(route), <<>>,
    UrlLine(buildUrl(route.urlPath, site)), <<>>>>
  \o OptionalParagraph(getBestDescription(route))
  \o (IF Truthy(TextField(route, "content"))
      THEN <<formatContentForLLM(route), <<>>>> ELSE <<>>)
  \o <<SeparatorLine, <<>>>>

\* one route section of the full digest with the separator written between
\* the routes of the section only
FullSectionPartsSeparatedBetween(entry, site) ==
  LET rendered == Flatten([k \in 1..Len(entry.routes) |->
                             FullRouteParts(entry.routes[k], site)])
  IN <<<<"#", "#", " ">> \o entry.section, <<>>>>
     \o (IF Len(rendered) = 0 THEN <<>> ELSE SubSeq(rendered, 1, Len(rendered) - 2))

FullSectionParts(entry, site) ==
  <<<<"#", "#", " ">> \o entry.section, <<>>>>
  \o Flatten([k \in 1..Len(entry.routes) |-> FullRouteParts(entry.routes[k], site)])

FullItemParts(item) ==
  <<<<"#", "#", "#", " ">> \o item.title, <<>>, UrlLine(item.url), <<>>>>
  \o OptionalParagraph(item.description)
  \o <<SeparatorLine, <<>>>>

FullCustomParts(section) ==
  <<<<"#", "#", " ">> \o section.title, <<>>>>
  \o OptionalParagraph(section.description)
  \o Flatten([k \in 1..Len(section.items) |-> FullItemParts(section.items[k])])

\* the parts array of generateLLMsFullTxt, before parts.join('\n')
generateLLMsFullTxt(rs, opts) ==
  LET sects == groupBySection(rs, opts.sources)
  IN HeaderParts(opts)
     \o <<NoticeLine, <<>>, SeparatorLine, <<>>>>
     \o Flatten([k \in 1..Len(sects) |-> FullSectionParts(sects[k], opts.siteUrl)])
     \o Flatten([k \in 1..Len(opts.customSections) |->
                   FullCustomParts(opts.customSections[k])])

--------------------------------------------------------------------------
(* generator: generateRouteHandlerFile, and the evaluation of the template *)
(* literal it writes                                                       *)

\* content.replace(/`/g, '\\`'): a backslash before every backtick
\* (each character is replaced on its own, so the text is escaped by halves)
RECURSIVE EscapeBackticks(_)
EscapeBackticks(text) ==
  IF Len(text) = 0 THEN <<>>
  ELSE IF Len(text) = 1
  THEN IF text[1] = Backtick THEN <<"\\", Backtick>> ELSE text
  ELSE LET half == Len(text) \div 2
       IN EscapeBackticks(SubSeq(text, 1, half))
            \o EscapeBackticks(SubSeq(text, half + 1, Len(text)))

\* the text of the route handler up to and including the opening backtick
HandlerPrefix ==
  <<"e", "x", "p", "o", "r", "t", " ", "c", "o", "n", "s", "t", " ", "d",
    "y", "n", "a", "m", "i", "c", " ", "=", " ", "'", "f", "o", "r", "c",
    "e", "-", "s", "t", "a", "t", "i", "c", "'", ";", "\n", "\n", "e", "x",
    "p", "o", "r", "t", " ", "f", "u", "n", "c", "t", "i", "o", "n", " ",
    "G", "E", "T", "(", ")", " ", "{", "\n", " ", " ", "c", "o", "n", "s",
    "t", " ", "m", "a", "r", "k", "d", "o", "w", "n", " ", "=", " ",
    Backtick>>

\* the text of the route handler from the closing backtick on
HandlerSuffix ==
  <<Backtick, ";", "\n", "\n", " ", " ", "r", "e", "t", "u", "r", "n", " ",
    "n", "e", "w", " ", "R", "e", "s", "p", "o", "n", "s", "e", "(", "m",
    "a", "r", "k", "d", "o", "w", "n", ",", " ", "{", "\n", " ", " ", " ",
    " ", "h", "e", "a", "d", "e", "r", "s", ":", " ", "{", "\n", " ", " ",
    " ", " ", " ", " ", "'", "C", "o", "n", "t", "e", "n", "t", "-", "T",
    "y", "p", "e", "'", ":", " ", "'", "t", "e", "x", "t", "/", "p", "l",
    "a", "i", "n", ";", " ", "c", "h", "a", "r", "s", "e", "t", "=", "u",
    "t", "f", "-", "8", "'", ",", "\n", " ", " ", " ", " ", "}", ",", "\n",
    " ", " ", "}", ")", ";", "\n", "}", "\n">>

generateRouteHandlerFile(text) ==
  HandlerPrefix \o EscapeBackticks(text) \o HandlerSuffix

\* the character an escape sequence \c of a template literal stands for, for
\* the characters of the model's alphabet
Unescaped(c) == IF c = "n" THEN "\n" ELSE IF c = "t" THEN "\t" ELSE c

\* ECMAScript evaluation of the template literal whose opening backtick is
\* at i - 1: a backslash escapes the next character, ${ opens a
\* substitution, a bare backtick closes the literal; the module is the
\* handler only if what follows the closing backtick is the rest of it
\* (the characters up to the next backslash, backtick or dollar sign stand
\* for themselves and are taken in one step)
RECURSIVE EvaluateTemplateLiteral(_, _, _, _)
EvaluateTemplateLiteral(code, i, acc, suffix) ==
  LET special == {k \in i..Len(code) : code[k] \in {"\\", Backtick, "$"}}
  IN IF special = {} THEN [kind |-> "SyntaxError"]
     ELSE LET k == CHOOSE x \in special : \A y \in special : x <= y
              plain == acc \o SubSeq(code, i, k - 1)
          IN IF code[k] = "\\"
             THEN IF k = Len(code) THEN [kind |-> "SyntaxError"]
                  ELSE EvaluateTemplateLiteral(code, k + 2,
                                               Append(plain, Unescaped(code[k + 1])),
                                               suffix)
             ELSE IF code[k] = Backtick
             THEN IF From(code, k) = suffix THEN [kind |-> "text", text |-> plain]
                  ELSE [kind |-> "SyntaxError"]
             ELSE IF MatchesAt(code, <<"$", "{">>, k) THEN [kind |-> "substitution"]
             ELSE EvaluateTemplateLiteral(code, k + 1, Append(plain, code[k]), suffix)

EvaluateTemplateFrom(code, i, acc) == EvaluateTemplateLiteral(code, i, acc, HandlerSuffix)

\* the value of the constant markdown when the generated module runs
EvaluateMarkdown(code) ==
  IF StartsWith(code, HandlerPrefix)
  THEN EvaluateTemplateFrom(code, Len(HandlerPrefix) + 1, <<>>)
  ELSE [kind |-> "SyntaxError"]

--------------------------------------------------------------------------
(* index: LLMsTxtWebpackPlugin.apply, the beforeCompile hook *)

\* the hook up to its await, with the flag left for after the await: a
\* firing that starts the pipeline does not set hasRun
beforeCompileFlagAfterAwait(p) ==
  LET fired == [p EXCEPT !.fired = @ + 1]
  IN IF p.hasRun THEN [fired EXCEPT !.callbacks = @ + 1]
     ELSE IF p.mode = "development" /\ p.skipInDevelopment
     THEN [fired EXCEPT !.hasRun = TRUE, !.callbacks = @ + 1]
     ELSE [fired EXCEPT !.started = @ + 1, !.inFlight = @ + 1]

\* the hook from its start to the await of generateLLMFiles, or to its
\* return when nothing is awaited: JavaScript runs this part without
\* interleaving
beforeCompile(p) ==
  LET fired == [p EXCEPT !.fired = @ + 1]
  IN IF p.hasRun THEN [fired EXCEPT !.callbacks = @ + 1]
     ELSE IF p.mode = "development" /\ p.skipInDevelopment
     THEN [fired EXCEPT !.hasRun = TRUE, !.callbacks = @ + 1]
     ELSE [fired EXCEPT !.hasRun = TRUE, !.started = @ + 1, !.inFlight = @ + 1]

\* the hook after an await without the try block: a rejection leaves the
\* hook before the callback is called
afterGenerateUncaught(p, rejected) ==
  IF rejected THEN [p EXCEPT !.inFlight = @ - 1]
  ELSE [p EXCEPT !.inFlight = @ - 1, !.callbacks = @ + 1]

\* the hook after the await: a rejection is caught and logged, and the
\* callback is called either way
afterGenerate(p, rejected) ==
  [p EXCEPT !.inFlight = @ - 1,
            !.errorsLogged = @ + (IF rejected THEN 1 ELSE 0),
            !.callbacks = @ + 1]

--------------------------------------------------------------------------
(* per-page generator: filterRoutes, createMarkdownContent,                *)
(* createRouteHandlerContent, getRouteHandlerPath, generatePerPageRoutes   *)

\* minimatch(relativePath, pattern) || minimatch(relativePath, `**/${pattern}`)
MatchesPattern(route, pattern) ==
  LET relativePath == RelativeToCwd(route.filePath)
  IN \/ minimatch(relativePath, pattern)
     \/ minimatch(relativePath, <<"*", "*", "/">> \o pattern)

\* options.perPageOptions || {}
PerPageOptionsOf(opts) ==
  IF "perPageOptions" \in DOMAIN opts THEN opts.perPageOptions ELSE <<>>

\* perPageOptions[f] || []
PatternsOf(perPageOptions, f) ==
  IF f \in DOMAIN perPageOptions THEN perPageOptions[f] ELSE <<>>

\* filterRoutes with the exclude patterns consulted only when no include
\* pattern is given
KeepsRouteIncludeFirst(route, opts) ==
  LET includePatterns == PatternsOf(PerPageOptionsOf(opts), "includePatterns")
      excludePatterns == PatternsOf(PerPageOptionsOf(opts), "excludePatterns")
  IN IF Len(includePatterns) > 0
     THEN \E k \in 1..Len(includePatterns) : MatchesPattern(route, includePatterns[k])
     ELSE ~\E k \in 1..Len(excludePatterns) : MatchesPattern(route, excludePatterns[k])

\* the callback of routes.filter in filterRoutes
KeepsRoute(route, opts) ==
  LET includePatterns == PatternsOf(PerPageOptionsOf(opts), "includePatterns")
      excludePatterns == PatternsOf(PerPageOptionsOf(opts), "excludePatterns")
  IN /\ Len(includePatterns) > 0 =>
          \E k \in 1..Len(includePatterns) : MatchesPattern(route, includePatterns[k])
     /\ Len(excludePatterns) > 0 =>
          ~\E k \in 1..Len(excludePatterns) : MatchesPattern(route, excludePatterns[k])

filterRoutes(rs, opts) == SelectSeq(rs, LAMBDA route : KeepsRoute(route, opts))

\* createMarkdownContent: the parts array, joined with line breaks
createMarkdownContent(route, opts) ==
  LET title == getBestTitle(route)
      description == getBestDescription(route)
      site == TextField(opts, "siteUrl")
      includeMetadata ==
        ~("includeMetadata" \in DOMAIN PerPageOptionsOf(opts)
            /\ PerPageOptionsOf(opts).includeMetadata = FALSE)
      frontmatter ==
        IF includeMetadata /\ (Truthy(title) \/ Truthy(description) \/ Truthy(site))
        THEN <<<<"-", "-", "-">>>>
               \o (IF Truthy(title)
                   THEN <<<<"t", "i", "t", "l", "e", ":", " ">> \o title>> ELSE <<>>)
               \o (IF Truthy(description)
                   THEN <<<<"d", "e", "s", "c", "r", "i", "p", "t", "i", "o", "n", ":", " ">>
                            \o description>>
                   ELSE <<>>)
               \o (IF Truthy(site) /\ Truthy(route.urlPath)
                   THEN <<<<"u", "r", "l", ":", " ">> \o buildUrlPerPage(route.urlPath, site)>>
                   ELSE <<>>)
               \o <<<<"-", "-", "-">>, <<>>>>
        ELSE <<>>
      heading == <<<<"#", " ">> \o title, <<>>>>
      quote == IF Truthy(description) THEN <<<<">", " ">> \o description, <<>>>> ELSE <<>>
      body == IF Truthy(TextField(route, "content")) THEN <<Trim(route.content)>> ELSE <<>>
  IN Join(frontmatter \o heading \o quote \o body, <<"\n">>)

\* replace(/\\/g, '\\\\'), then the backticks, then replace(/\$/g, '\\$')
\* (each character is replaced on its own, so the text is escaped by halves)
RECURSIVE EscapeForTemplate(_)
RECURSIVE EscapeChar(_, _)
EscapeChar(text, c) ==
  IF Len(text) = 0 THEN <<>>
  ELSE IF Len(text) = 1
  THEN IF text[1] = c THEN <<"\\", c>> ELSE text
  ELSE LET half == Len(text) \div 2
       IN EscapeChar(SubSeq(text, 1, half), c)
            \o EscapeChar(SubSeq(text, half + 1, Len(text)), c)

\* the three replacements with the backslashes escaped last
EscapeForTemplateBackslashesLast(text) ==
  EscapeChar(EscapeChar(EscapeChar(text, Backtick), "$"), "\\")

EscapeForTemplate(text) ==
  EscapeChar(EscapeChar(EscapeChar(text, "\\"), Backtick), "$")

\* the text of the per-page route handler from the closing backtick on
PerPageHandlerSuffix ==
  <<Backtick, ";", "\n", "\n", " ", " ", "r", "e", "t", "u", "r", "n", " ",
    "n", "e", "w", " ", "R", "e", "s", "p", "o", "n", "s", "e", "(", "m",
    "a", "r", "k", "d", "o", "w", "n", ",", " ", "{", "\n", " ", " ", " ",
    " ", "h", "e", "a", "d", "e", "r", "s", ":", " ", "{", "\n", " ", " ",
    " ", " ", " ", " ", "'", "C", "o", "n", "t", "e", "n", "t", "-", "T",
    "y", "p", "e", "'", ":", " ", "'", "t", "e", "x", "t", "/", "m", "a",
    "r", "k", "d", "o", "w", "n", ";", " ", "c", "h", "a", "r", "s", "e",
    "t", "=", "u", "t", "f", "-", "8", "'", ",", "\n", " ", " ", " ", " ",
    "}", ",", "\n", " ", " ", "}", ")", ";", "\n", "}", "\n">>

createRouteHandlerContent(markdownContent) ==
  HandlerPrefix \o EscapeForTemplate(markdownContent) \o PerPageHandlerSuffix

\* the value of the constant markdown when the per-page handler runs
EvaluatePerPageMarkdown(code) ==
  IF StartsWith(code, HandlerPrefix)
  THEN EvaluateTemplateLiteral(code, Len(HandlerPrefix) + 1, <<>>, PerPageHandlerSuffix)
  ELSE [kind |-> "SyntaxError"]

\* path.dirname of an absolute path with at least one directory
Dirname(filePath) ==
  LET slashes == {i \in 1..Len(filePath) : filePath[i] = "/"}
      last == CHOOSE i \in slashes : \A j \in slashes : j <= i
  IN IF last = 1 THEN <<"/">> ELSE SubSeq(filePath, 1, last - 1)

\* path.relative(from, to) for a directory to at or below from
RelativeTo(from, to) ==
  IF to = from THEN <<>> ELSE From(to, Len(from) + 2)

\* path.join of POSIX: the non-empty parts joined by "/", runs of slashes
\* collapsed (no part of the model holds a "." or ".." segment)
PathJoin(parts) ==
  LET RECURSIVE Collapse(_)
      Collapse(s) ==
        IF Len(s) < 2 THEN s
        ELSE IF s[1] = "/" /\ s[2] = "/" THEN Collapse(Tail(s))
        ELSE <<s[1]>> \o Collapse(Tail(s))
  IN Collapse(Join(SelectSeq(parts, LAMBDA part : Len(part) > 0), <<"/">>))

HtmlMd == <<".", "h", "t", "m", "l", ".", "m", "d">>
RouteTs == <<"r", "o", "u", "t", "e", ".", "t", "s">>

getRouteHandlerPath(route, appDir) ==
  LET relativePath == RelativeTo(appDir, Dirname(route.filePath))
      pathWithoutGroups == RemoveRouteGroups(relativePath)
  IN IF Len(pathWithoutGroups) = 0 \/ pathWithoutGroups = <<".">>
     THEN PathJoin(<<appDir, <<"i", "n", "d", "e", "x">> \o HtmlMd, RouteTs>>)
     ELSE LET segments == Split(pathWithoutGroups, "/")
              lastSegment == segments[Len(segments)]
              parentPath == Join(SubSeq(segments, 1, Len(segments) - 1), <<"/">>)
              htmlMdDir == IF Len(parentPath) > 0
                           THEN PathJoin(<<appDir, parentPath, lastSegment \o HtmlMd>>)
                           ELSE PathJoin(<<appDir, lastSegment \o HtmlMd>>)
          IN PathJoin(<<htmlMdDir, RouteTs>>)

\* one iteration of the loop of generatePerPageRoutes with the try block
\* around the whole loop: the first failure ends the loop
perPageStepAborting(st, failure) ==
  LET route == st.filtered[st.index]
      code == createRouteHandlerContent(createMarkdownContent(route, st.options))
      file == getRouteHandlerPath(route, AppDir)
  IN IF failure = "none"
     THEN [st EXCEPT !.index = @ + 1,
                     !.disk = Append(@, [path |-> file, text |-> code]),
                     !.attempts = Append(@, "written"),
                     !.generatedFiles =
                        Append(@, [path |-> file, type |-> "per-page",
                                   size |-> Len(code), routeCount |-> 1])]
     ELSE [st EXCEPT !.index = Len(st.filtered) + 1,
                     !.attempts = Append(@, "failed"),
                     !.logged = Append(@, route.urlPath)]

\* one iteration of the loop of generatePerPageRoutes: the try block, or
\* the catch block when mkdirSync or writeFileSync throws
perPageStep(st, failure) ==
  LET route == st.filtered[st.index]
      code == createRouteHandlerContent(createMarkdownContent(route, st.options))
      file == getRouteHandlerPath(route, AppDir)
  IN IF failure = "none"
     THEN [st EXCEPT !.index = @ + 1,
                     !.disk = Append(@, [path |-> file, text |-> code]),
                     !.attempts = Append(@, "written"),
                     !.generatedFiles =
                        Append(@, [path |-> file, type |-> "per-page",
                                   size |-> Len(code), routeCount |-> 1])]
     ELSE [st EXCEPT !.index = @ + 1,
                     !.attempts = Append(@, "failed"),
                     !.logged = Append(@, route.urlPath)]

--------------------------------------------------------------------------
(* index and generator: generateLLMFiles, writeGeneratedFiles, writeFile   *)
(* and filterRoutesForCustomFile. The app tree is what fs makes of it:     *)
(* missing, unreadable, or a directory with the page files found in it.    *)

\* { ...base, ...extra }
Spread(base, extra) ==
  [f \in DOMAIN base \cup DOMAIN extra |->
     IF f \in DOMAIN extra THEN extra[f] ELSE base[f]]

\* scanAppDirectory without the existsSync test: readdirSync throws on a
\* missing directory
scanAppDirectoryUnchecked(tree) ==
  IF tree.kind = "dir"
  THEN [value |-> [k \in 1..Len(tree.entries) |-> tree.entries[k].route], warned |-> FALSE]
  ELSE [error |-> "readdirSync"]

\* scanAppDirectory: the routes of the page files, [] with a warning when
\* the directory does not exist; readdirSync throws on an unreadable one
scanAppDirectory(tree) ==
  IF tree.kind = "missing" THEN [value |-> <<>>, warned |-> TRUE]
  ELSE IF tree.kind = "dir"
  THEN [value |-> [k \in 1..Len(tree.entries) |-> tree.entries[k].route], warned |-> FALSE]
  ELSE [error |-> "readdirSync"]

\* the page file route.filePath names
FileOf(tree, route) ==
  LET k == CHOOSE i \in 1..Len(tree.entries) : tree.entries[i].route.filePath = route.filePath
  IN tree.entries[k].file

\* enrichRoutesWithMetadata where no directory holds a layout file:
\* extractMetadata returns undefined and every route gets metadata: undefined
enrichRoutesWithMetadata(rs) == rs

\* enrichRoutesWithContent: the array of enriched routes, or the error of
\* the first extractPageContent that throws
RECURSIVE enrichRoutesWithContent(_, _, _, _)
enrichRoutesWithContent(rs, tree, copts, enriched) ==
  IF Len(rs) = 0 THEN [value |-> enriched]
  ELSE LET file == FileOf(tree, rs[1])
           result == extractPageContent(file, copts)
       IN IF "error" \in DOMAIN result THEN [error |-> result.error]
          ELSE enrichRoutesWithContent(
                 Tail(rs), tree, copts,
                 Append(enriched,
                        Spread(rs[1],
                               (IF result.value = Undefined THEN <<>>
                                ELSE [content |-> result.value])
                                 @@ [headings |-> extractHeadings(file)])))

\* the catch block of generateLLMFiles without its throw statement: the
\* error is logged and the promise is fulfilled
generationFailedSilently(st, where) ==
  [st EXCEPT !.failedAt = where, !.errorsLogged = @ + 1, !.stage = "settled",
             !.outcome = "fulfilled"]

\* the catch block of generateLLMFiles: console.error, throw error
generationFailed(st, where) ==
  [st EXCEPT !.failedAt = where, !.errorsLogged = @ + 1, !.stage = "settled",
             !.outcome = "rejected"]

\* generateLLMFiles step 1 and the test of routes.length
scanStep(st) ==
  LET scanned == scanAppDirectory(st.tree)
  IN IF "error" \in DOMAIN scanned THEN generationFailed(st, "scan")
     ELSE IF Len(scanned.value) = 0
     THEN [st EXCEPT !.warnings = @ + (IF scanned.warned THEN 2 ELSE 1),
                     !.stage = "settled", !.outcome = "fulfilled"]
     ELSE [st EXCEPT !.routes = scanned.value, !.stage = "scanned"]

\* options.contentOptions
ContentOptionsOf(opts) ==
  IF "contentOptions" \in DOMAIN opts THEN opts.contentOptions ELSE <<>>

\* generateLLMFiles steps 2 to 4
enrichStep(st) ==
  LET withMetadata == enrichRoutesWithMetadata(st.routes)
      withContent == enrichRoutesWithContent(withMetadata, st.tree,
                                             ContentOptionsOf(st.options), <<>>)
  IN IF "error" \in DOMAIN withContent THEN generationFailed(st, "content")
     ELSE [st EXCEPT !.routes = sortRoutesByPriority(withContent.value, st.options.sources),
                     !.stage = "sorted"]

PublicDir == <<"p", "u", "b", "l", "i", "c">>
LLMsTxtName == <<"l", "l", "m", "s", ".", "t", "x", "t">>
LLMsFullTxtName == <<"l", "l", "m", "s", "-", "f", "u", "l", "l", ".", "t", "x", "t">>
LLMsTxtPath == <<"a", "p", "p", "/", "l", "l", "m", "s", ".", "t", "x", "t", "/", "r", "o", "u", "t", "e", ".", "t", "s">>
LLMsFullTxtPath == <<"a", "p", "p", "/", "l", "l", "m", "s", "-", "f", "u", "l", "l", ".", "t", "x", "t", "/", "r", "o", "u", "t", "e", ".", "t", "s">>

\* writeFile up to the calls of fs: the path and the text to write
writeFile(text, opts, filename, defaultPath) ==
  IF "outputType" \in DOMAIN opts /\ opts.outputType = "static"
  THEN [path |-> PathJoin(<<Cwd, PublicDir, filename>>), text |-> text]
  ELSE [path |-> PathJoin(<<Cwd, defaultPath>>), text |-> generateRouteHandlerFile(text)]

\* one document of writeGeneratedFiles: writeFile, then generatedFiles.push;
\* nothing is pushed when mkdirSync or writeFileSync throws (documents keeps
\* the parts each content was joined from)
writeDocument(st, parts, filename, defaultPath, type, routeCount, failure) ==
  LET text == Join(parts, <<"\n">>)
      file == writeFile(text, st.options, filename, defaultPath)
  IN IF failure # "none" THEN generationFailed(st, type)
     ELSE [st EXCEPT !.disk = Append(@, file),
                     !.documents = Append(@, parts),
                     !.generatedFiles =
                        Append(@, [path |-> file.path, type |-> type,
                                   size |-> Len(text), routeCount |-> routeCount])]

\* options[flag] !== false
NotFalse(opts, flag) == ~(flag \in DOMAIN opts /\ opts[flag] = FALSE)

\* writeGeneratedFiles: the llms.txt block
writeLLMsTxtStep(st, failure) ==
  IF NotFalse(st.options, "generateLLMsTxt")
  THEN LET written == writeDocument(st, generateLLMsTxt(st.routes, st.options),
                                    LLMsTxtName, LLMsTxtPath, "llms.txt",
                                    Len(st.routes), failure)
       IN IF written.stage = "settled" THEN written
          ELSE [written EXCEPT !.stage = "llms.txt"]
  ELSE [st EXCEPT !.stage = "llms.txt"]

\* writeGeneratedFiles: the llms-full.txt block
writeLLMsFullTxtStep(st, failure) ==
  IF NotFalse(st.options, "generateLLMsFullTxt")
  THEN LET written == writeDocument(st, generateLLMsFullTxt(st.routes, st.options),
                                    LLMsFullTxtName, LLMsFullTxtPath, "llms-full.txt",
                                    Len(st.routes), failure)
       IN IF written.stage = "settled" THEN written
          ELSE [written EXCEPT !.stage = "llms-full.txt"]
  ELSE [st EXCEPT !.stage = "llms-full.txt"]

\* route.filePath.includes(pattern.replace('**', '')) for some include
\* pattern of the custom file
KeptForCustomFile(route, customFile) ==
  \E k \in 1..Len(customFile.includePatterns) :
     Includes(route.filePath, RemoveFirst(customFile.includePatterns[k], <<"*", "*">>))

filterRoutesForCustomFile(rs, customFile) ==
  SelectSeq(rs, LAMBDA route : KeptForCustomFile(route, customFile))

\* the document of one custom file: the full digest or the link index of
\* the filtered routes, under the title and description of the custom file
CustomFileParts(rs, opts, customFile) ==
  LET overridden == Spread(opts, [title |-> customFile.title,
                                   description |-> customFile.description])
  IN IF "fullContent" \in DOMAIN customFile /\ customFile.fullContent
     THEN generateLLMsFullTxt(filterRoutesForCustomFile(rs, customFile), overridden)
     ELSE generateLLMsTxt(filterRoutesForCustomFile(rs, customFile), overridden)

\* `app/${customFile.filename.replace('.txt', '')}/route.ts`
CustomFilePath(customFile) ==
  <<"a", "p", "p", "/">> \o RemoveFirst(customFile.filename, <<".", "t", "x", "t">>) \o <<"/", "r", "o", "u", "t", "e", ".", "t", "s">>

\* one iteration of the loop over options.customFiles
customFileStep(st, customFile, failure) ==
  writeDocument(st, CustomFileParts(st.routes, st.options, customFile),
                customFile.filename, CustomFilePath(customFile), "custom",
                Len(filterRoutesForCustomFile(st.routes, customFile)), failure)

\* the loop over options.customFiles from the i-th file on; the write of
\* the failAt-th file throws
RECURSIVE customFilesLoop(_, _, _)
customFilesLoop(st, i, failAt) ==
  IF i > Len(st.options.customFiles) THEN st
  ELSE LET written == customFileStep(st, st.options.customFiles[i],
                                     IF i = failAt THEN "write" ELSE "none")
       IN IF written.stage = "settled" THEN written
          ELSE customFilesLoop(written, i + 1, failAt)

\* writeGeneratedFiles: the custom files block
customFilesStep(st, failAt) ==
  IF "customFiles" \in DOMAIN st.options
  THEN LET looped == customFilesLoop(st, 1, failAt)
       IN IF looped.stage = "settled" THEN looped ELSE [looped EXCEPT !.stage = "custom"]
  ELSE [st EXCEPT !.stage = "custom"]

\* the loop of generatePerPageRoutes, failures[k] being what the file
\* system does to the write of the k-th surviving route
RECURSIVE perPageLoop(_, _)
perPageLoop(pp, failures) ==
  IF pp.index > Len(pp.filtered) THEN pp
  ELSE perPageLoop(perPageStep(pp, failures[pp.index]), failures)

\* generatePerPageRoutes(routes, options) on the disk of the run
generatePerPageRoutes(rs, opts, disk, failures) ==
  IF ~("generatePerPageMarkdown" \in DOMAIN opts /\ opts.generatePerPageMarkdown)
  THEN [generatedFiles |-> <<>>, disk |-> disk, logged |-> <<>>]
  ELSE perPageLoop([routes |-> rs, options |-> opts, filtered |-> filterRoutes(rs, opts),
                    index |-> 1, generatedFiles |-> <<>>, disk |-> disk,
                    attempts |-> <<>>, logged |-> <<>>],
                   failures)

\* writeGeneratedFiles: the per-page block and the return; then the report
\* of generateLLMFiles and options.onGenerate(generatedFiles)
finishStep(st, failures) ==
  LET perPageRun == generatePerPageRoutes(st.routes, st.options, st.disk, failures)
      generatedFiles == st.generatedFiles \o perPageRun.generatedFiles
  IN [st EXCEPT !.generatedFiles = generatedFiles,
                !.disk = perPageRun.disk,
                !.errorsLogged = @ + Len(perPageRun.logged),
                !.onGenerateCalls =
                   IF "onGenerate" \in DOMAIN st.options
                   THEN Append(@, generatedFiles) ELSE @,
                !.stage = "settled",
                !.outcome = "fulfilled"]

--------------------------------------------------------------------------
(* scanner: scanAppDirectory, scanDirectory, shouldExclude. The app tree   *)
(* is the set of its files, each the list of the names from the app        *)
(* directory down to the file.                                             *)

DefaultExclusions ==
  <<<<"*", "*", "/", "a", "p", "i", "/", "*", "*">>,
    <<"*", "*", "/", "_", "*", "/", "*", "*">>,
    <<"*", "*", "/", "_", "*", ".", "t", "s", "x">>,
    <<"*", "*", "/", "_", "*", ".", "t", "s">>,
    <<"*", "*", "/", "r", "o", "u", "t", "e", ".", "t", "s">>,
    <<"*", "*", "/", ".", "*">>,
    <<"*", "*", "/", "n", "o", "d", "e", "_", "m", "o", "d", "u", "l", "e", "s", "/", "*", "*">>>>

\* shouldExclude with the caller's patterns, when given, in place of the
\* default exclusions
shouldExcludeCallerOnly(relativePath, excludePatterns) ==
  LET allPatterns == IF Len(excludePatterns) > 0 THEN excludePatterns
                     ELSE DefaultExclusions
  IN \E k \in 1..Len(allPatterns) : minimatch(relativePath, allPatterns[k])

shouldExclude(relativePath, excludePatterns) ==
  LET allPatterns == DefaultExclusions \o excludePatterns
  IN \E k \in 1..Len(allPatterns) : minimatch(relativePath, allPatterns[k])

\* the names of the model's trees, in the order readdirSync lists them
EntryNames ==
  <<<<".", "g", "i", "t">>,
    <<".", "h", "i", "d", "d", "e", "n">>,
    <<"(", "g", ")">>,
    <<"_", "c", ".", "t", "s", "x">>,
    <<"_", "i", "n", "t", "e", "r", "n", "a", "l">>,
    <<"a">>,
    <<"a", "d", "m", "i", "n">>,
    <<"a", "p", "i">>,
    <<"b">>,
    <<"h", "e", "l", "l", "o">>,
    <<"l", "a", "y", "o", "u", "t", ".", "t", "s", "x">>,
    <<"m">>,
    <<"n", "o", "d", "e", "_", "m", "o", "d", "u", "l", "e", "s">>,
    <<"p", "a", "g", "e", ".", "j", "s">>,
    <<"p", "a", "g", "e", ".", "t", "s">>,
    <<"p", "a", "g", "e", ".", "t", "s", "x">>,
    <<"r", "o", "u", "t", "e", ".", "t", "s">>>>

\* the list of names dir begins the list of names p
IsUnder(p, dir) == Len(p) > Len(dir) /\ SubSeq(p, 1, Len(dir)) = dir

\* fs.readdirSync(dir, { withFileTypes: true }): the names of the entries
EntriesOf(files, dir) ==
  SelectSeq(EntryNames,
            LAMBDA name : \E p \in files : IsUnder(p, dir) /\ p[Len(dir) + 1] = name)

\* entry.isDirectory()
IsDirectory(files, full) == \E p \in files : IsUnder(p, full)

\* the file names scanDirectory makes a RouteInfo of
RouteFileNames ==
  {<<"p", "a", "g", "e", ".", "t", "s", "x">>, <<"p", "a", "g", "e", ".", "t", "s">>,
   <<"l", "a", "y", "o", "u", "t", ".", "t", "s", "x">>, <<"l", "a", "y", "o", "u", "t", ".", "t", "s">>,
   <<"r", "o", "u", "t", "e", ".", "t", "s">>}

\* createRouteInfo(fullPath, appDir, entry.name) for the file fileName of
\* the directory appDir/<dirs>
createRouteInfoOf(dirs, fileName) ==
  [filePath |-> AppDir \o Flatten([k \in 1..Len(dirs) |-> <<"/">> \o dirs[k]])
                  \o <<"/">> \o fileName,
   urlPath  |-> filePathToUrlPath(Join(dirs, <<"/">>)),
   type     |-> IF StartsWith(fileName, <<"p", "a", "g", "e">>) THEN "page"
                ELSE IF StartsWith(fileName, <<"l", "a", "y", "o", "u", "t">>) THEN "layout"
                ELSE "route"]

\* scanDirectory(dir, appDir, routes, options): acc holds the routes pushed
\* so far and the directories read so far
RECURSIVE scanDirectory(_, _, _, _)
RECURSIVE scanEntries(_, _, _, _, _)
scanEntries(files, dir, entries, excludePatterns, acc) ==
  IF Len(entries) = 0 THEN acc
  ELSE LET name == entries[1]
           full == Append(dir, name)
           relativePath == Join(full, <<"/">>)
           after ==
             IF shouldExclude(relativePath, excludePatterns) THEN acc
             ELSE IF IsDirectory(files, full)
             THEN scanDirectory(files, full, excludePatterns, acc)
             ELSE IF name \in RouteFileNames /\ StartsWith(name, <<"p", "a", "g", "e", ".">>)
             THEN [acc EXCEPT !.routes = Append(@, createRouteInfoOf(dir, name))]
             ELSE acc
       IN scanEntries(files, dir, Tail(entries), excludePatterns, after)

scanDirectory(files, dir, excludePatterns, acc) ==
  scanEntries(files, dir, EntriesOf(files, dir), excludePatterns,
              [acc EXCEPT !.read = Append(@, dir)])

\* options.excludePatterns || []
ExcludePatternsOf(opts) ==
  IF "excludePatterns" \in DOMAIN opts THEN opts.excludePatterns ELSE <<>>

\* scanAppDirectory(appDir, options) on an app directory that exists
scanAppTree(files, opts) ==
  scanDirectory(files, <<>>, ExcludePatternsOf(opts), [routes |-> <<>>, read |-> <<>>])

--------------------------------------------------------------------------
(* Directory names of the app tree, by Next.js routing convention *)

PlainSegments == {<<"a">>, <<"b">>}
GroupSegments == {<<"(", "g", ")">>}
DynamicSegments == {<<"[", "i", "d", "]">>}
\* catch-all names made of \w characters, and one with a hyphen ([...s-x])
CatchAllSegments ==
  {<<"[", ".", ".", ".", "s", "]">>, <<"[", ".", ".", ".", "s", "-", "x", "]">>}
OptionalCatchAllSegments ==
  {<<"[", "[", ".", ".", ".", "s", "]", "]">>,
   <<"[", "[", ".", ".", ".", "s", "-", "x", "]", "]">>}

Segments ==
  PlainSegments \cup GroupSegments \cup DynamicSegments
    \cup CatchAllSegments \cup OptionalCatchAllSegments

\* the directory paths of at most n segments, as lists of segments
RECURSIVE SegmentLists(_)
SegmentLists(n) ==
  IF n = 0 THEN {<<>>}
  ELSE LET shorter == SegmentLists(n - 1)
       IN shorter \cup {Append(l, sg) : l \in shorter, sg \in Segments}

\* path.relative yields the platform separator between segments
Separators == {<<"/">>, <<"\\">>}

--------------------------------------------------------------------------
(* The pages and the options the ordering and rendering stages are given *)

\* createRouteInfo for the page file of the directory appDir/<dirs>
createRouteInfo(dirs) ==
  [filePath |-> AppDir \o Flatten([k \in 1..Len(dirs) |-> <<"/">> \o dirs[k]])
                  \o <<"/", "p", "a", "g", "e", ".", "t", "s", "x">>,
   urlPath  |-> filePathToUrlPath(Join(dirs, <<"/">>)),
   type     |-> "page"]

\* app/page.tsx, app/p/page.tsx, app/b/page.tsx
ScannedRoutes ==
  {createRouteInfo(<<>>), createRouteInfo(<<<<"p">>>>), createRouteInfo(<<<<"b">>>>)}

\* lists of at most n distinct routes, in any traversal order
RECURSIVE RouteLists(_)
RouteLists(n) ==
  IF n = 0 THEN {<<>>}
  ELSE LET shorter == RouteLists(n - 1)
       IN shorter \cup
          UNION {{Append(l, r) :
                    r \in {x \in ScannedRoutes : \A k \in 1..Len(l) : l[k] # x}} :
                 l \in shorter}

Priorities == {"high", "medium", "low", "undefined"}

\* app/p/** -> Products, p/** -> Shop, app/** -> Pages
SourcePatterns ==
  {[pattern |-> <<"a", "p", "p", "/", "p", "/", "*", "*">>,
    section |-> <<"P", "r", "o", "d", "u", "c", "t", "s">>],
   [pattern |-> <<"p", "/", "*", "*">>,
    section |-> <<"S", "h", "o", "p">>],
   [pattern |-> <<"a", "p", "p", "/", "*", "*">>,
    section |-> PagesSection]}

ContentSources ==
  {[pattern |-> sp.pattern, section |-> sp.section, priority |-> pr] :
     sp \in SourcePatterns, pr \in Priorities}

RECURSIVE SourceLists(_)
SourceLists(n) ==
  IF n = 0 THEN {<<>>}
  ELSE LET shorter == SourceLists(n - 1)
       IN shorter \cup {Append(l, src) : l \in shorter, src \in ContentSources}

\* https://h/
SiteUrl == <<"h", "t", "t", "p", "s", ":", "/", "/", "h", "/">>

NoOptions ==
  [title |-> Undefined, description |-> Undefined, siteUrl |-> Undefined,
   sources |-> <<>>, customSections |-> <<>>]

--------------------------------------------------------------------------
(* Idle values of the variables a specification does not use *)

PathIdle == dirNames = <<>> /\ relPath = <<>> /\ urlPath = <<>>

OrderIdle == options = NoOptions /\ routes = <<>> /\ sections = <<>> /\ doc = <<>>

UrlIdle == siteUrl = Undefined /\ linkPath = <<>> /\ href = <<>>

ContentIdle ==
  pages = <<>> /\ contentOptions = <<>> /\ enrichedRoutes = <<>> /\ thrown = "none"

WrapIdle == content = <<>> /\ routeHandler = <<>>

EarlierIdle == PathIdle /\ OrderIdle /\ UrlIdle /\ ContentIdle /\ WrapIdle

LaterIdle ==
  plugin = <<>> /\ perPage = <<>> /\ run = <<>> /\ custom = <<>> /\ meta = <<>> /\ render = <<>> /\ scan = <<>>

--------------------------------------------------------------------------
(* Specification SpecPath: createRouteInfo derives the URL of a directory *)

InitPath ==
  /\ area = "path"
  /\ pc = "start"
  /\ dirNames \in SegmentLists(MaxSegments)
  /\ \E sep \in Separators : relPath = Join(dirNames, sep)
  /\ urlPath = <<>>
  /\ OrderIdle /\ UrlIdle /\ ContentIdle /\ WrapIdle /\ LaterIdle

\* createRouteInfo: urlPath = filePathToUrlPath(relativePath)
DeriveUrlPath ==
  /\ area = "path"
  /\ pc = "start"
  /\ urlPath' = filePathToUrlPath(relPath)
  /\ pc' = "done"
  /\ UNCHANGED <<area, dirNames, relPath, orderVars, urlVars, contentVars, wrapVars,
                 laterVars>>

NextPath == DeriveUrlPath

SpecPath == InitPath /\ [][NextPath]_vars

--------------------------------------------------------------------------
(* Specification SpecOrder: a scanned route array is sorted, grouped and   *)
(* rendered under the configured content sources                           *)

InitOrder ==
  /\ area = "order"
  /\ pc = "scanned"
  /\ \E srcs \in SourceLists(MaxSources), site \in {Undefined, SiteUrl} :
       options = [NoOptions EXCEPT !.sources = srcs, !.siteUrl = site]
  /\ routes \in RouteLists(MaxRoutes)
  /\ sections = <<>>
  /\ doc = <<>>
  /\ PathIdle /\ UrlIdle /\ ContentIdle /\ WrapIdle /\ LaterIdle

\* generateLLMFiles step 4: routes = sortRoutesByPriority(routes, options);
\* Array.prototype.sort orders the array it is given in place
SortRoutes ==
  /\ area = "order"
  /\ pc = "scanned"
  /\ routes' = sortRoutesByPriority(routes, options.sources)
  /\ pc' = "sorted"
  /\ UNCHANGED <<area, laterVars, pathVars, urlVars, contentVars, wrapVars, options, sections, doc>>

\* a call of the exported groupRoutesBySection on the route array
GroupRoutes ==
  /\ area = "order"
  /\ pc \in {"scanned", "sorted"}
  /\ sections' = groupRoutesBySection(routes, options.sources)
  /\ pc' = "grouped"
  /\ UNCHANGED <<area, laterVars, pathVars, urlVars, contentVars, wrapVars, options, routes, doc>>

\* writeGeneratedFiles: content = generateLLMsTxt(routes, options)
RenderLLMsTxt ==
  /\ area = "order"
  /\ pc = "sorted"
  /\ doc' = generateLLMsTxt(routes, options)
  /\ pc' = "llms.txt"
  /\ UNCHANGED <<area, laterVars, pathVars, urlVars, contentVars, wrapVars, options, routes, sections>>

\* writeGeneratedFiles: content = generateLLMsFullTxt(routes, options)
RenderLLMsFullTxt ==
  /\ area = "order"
  /\ pc = "sorted"
  /\ doc' = generateLLMsFullTxt(routes, options)
  /\ pc' = "llms-full.txt"
  /\ UNCHANGED <<area, laterVars, pathVars, urlVars, contentVars, wrapVars, options, routes, sections>>

NextOrder == SortRoutes \/ GroupRoutes \/ RenderLLMsTxt \/ RenderLLMsFullTxt

SpecOrder == InitOrder /\ [][NextOrder]_vars

--------------------------------------------------------------------------
(* Specification SpecUrl: buildUrl resolves a URL path against the base    *)

\* options.siteUrl: absent, empty, or an origin with or without a path and
\* with or without a trailing slash
BaseUrls ==
  {Undefined, <<>>,
   <<"h", "t", "t", "p", "s", ":", "/", "/", "h">>,
   SiteUrl,
   <<"h", "t", "t", "p", "s", ":", "/", "/", "h", "/", "d">>,
   <<"h", "t", "t", "p", "s", ":", "/", "/", "h", "/", "d", "/">>}

\* the URL paths the scanner derives, and paths without a leading slash
LinkPaths ==
  {filePathToUrlPath(Join(l, <<"/">>)) : l \in SegmentLists(2)}
    \cup {<<>>, <<"p">>, <<"p", "/", "q">>, <<"p", "/">>}

InitUrl ==
  /\ area = "url"
  /\ pc = "start"
  /\ siteUrl \in BaseUrls
  /\ linkPath \in LinkPaths
  /\ href = <<>>
  /\ PathIdle /\ OrderIdle /\ ContentIdle /\ WrapIdle /\ LaterIdle

\* generator: buildUrl(route.urlPath, options.siteUrl)
BuildUrlGenerator ==
  /\ area = "url"
  /\ pc = "start"
  /\ href' = buildUrl(linkPath, siteUrl)
  /\ pc' = "generator"
  /\ UNCHANGED <<area, siteUrl, linkPath, pathVars, orderVars, contentVars, wrapVars,
                 laterVars>>

\* per-page generator: buildUrl(route.urlPath, siteUrl)
BuildUrlPerPage ==
  /\ area = "url"
  /\ pc = "start"
  /\ href' = buildUrlPerPage(linkPath, siteUrl)
  /\ pc' = "per-page"
  /\ UNCHANGED <<area, siteUrl, linkPath, pathVars, orderVars, contentVars, wrapVars,
                 laterVars>>

NextUrl == BuildUrlGenerator \/ BuildUrlPerPage

SpecUrl == InitUrl /\ [][NextUrl]_vars

--------------------------------------------------------------------------
(* Specification SpecContent: enrichRoutesWithContent walks the routes and *)
(* extracts the content and the headings of each page file                 *)

\* <h1> T </h1> ab {'cd'}
HeadingModule ==
  [kind |-> "module",
   nodes |-> <<[type |-> "JSXText", value |-> <<" ", "T", " ">>],
               [type |-> "JSXText", value |-> <<" ", "a", "b", " ">>],
               [type |-> "StringLiteral", value |-> <<"c", "d">>]>>,
   elements |-> <<[tagType |-> "JSXIdentifier", tag |-> <<"h", "1">>,
                   children |-> <<[type |-> "JSXText", value |-> <<" ", "T", " ">>]>>]>>]

\* a div holding blank text, a template literal of two quasis and an empty
\* string literal
TemplateModule ==
  [kind |-> "module",
   nodes |-> <<[type |-> "JSXText", value |-> <<"\n", " ">>],
               [type |-> "TemplateLiteral", quasis |-> <<<<"e">>, <<"f">>>>],
               [type |-> "StringLiteral", value |-> <<>>]>>,
   elements |-> <<[tagType |-> "JSXIdentifier", tag |-> <<"d", "i", "v">>,
                   children |-> <<[type |-> "JSXText", value |-> <<"\n", " ">>]>>]>>]

\* one string literal with runs of newlines and blanks inside
SpacedModule ==
  [kind |-> "module",
   nodes |-> <<[type |-> "StringLiteral",
                value |-> <<"a", "\n", "\n", "\n", "b", " ", " ", "c">>]>>,
   elements |-> <<>>]

\* text the parser rejects: an import line and a quoted string
BrokenImport ==
  [kind |-> "unparsable",
   text |-> <<"i", "m", "p", "o", "r", "t", " ", "x", "\n", "'", "h", "i", "'", "<">>]

\* text the parser rejects: a quoted string of six characters
BrokenLong ==
  [kind |-> "unparsable",
   text |-> <<"\"", "a", "b", "c", "d", "e", "f", "\"", " ", "<">>]

\* text the parser rejects: strings inside and outside comments
BrokenComments ==
  [kind |-> "unparsable",
   text |-> <<"/", "*", " ", "'", "c", "'", " ", "*", "/", " ", "'", "a", "b", "'",
              " ", "/", "/", " ", "\"", "d", "\"", "\n", "<">>]

\* <h2> {t} </h2><h3>A {x} </h3><h1>B</h1>
ExpressionModule ==
  [kind |-> "module",
   nodes |-> <<[type |-> "JSXText", value |-> <<" ">>],
               [type |-> "JSXText", value |-> <<" ">>],
               [type |-> "JSXText", value |-> <<"A", " ">>],
               [type |-> "JSXText", value |-> <<" ">>],
               [type |-> "JSXText", value |-> <<"B">>]>>,
   elements |-> <<[tagType |-> "JSXIdentifier", tag |-> <<"h", "2">>,
                   children |-> <<[type |-> "JSXText", value |-> <<" ">>],
                                  [type |-> "JSXExpressionContainer"],
                                  [type |-> "JSXText", value |-> <<" ">>]>>],
                  [tagType |-> "JSXIdentifier", tag |-> <<"h", "3">>,
                   children |-> <<[type |-> "JSXText", value |-> <<"A", " ">>],
                                  [type |-> "JSXExpressionContainer"],
                                  [type |-> "JSXText", value |-> <<" ">>]>>],
                  [tagType |-> "JSXIdentifier", tag |-> <<"h", "1">>,
                   children |-> <<[type |-> "JSXText", value |-> <<"B">>]>>]>>]

PageFiles ==
  {[kind |-> "missing"], HeadingModule, TemplateModule, SpacedModule, ExpressionModule,
   BrokenImport, BrokenLong, BrokenComments}

\* the route of the k-th page: app/page.tsx, app/p/page.tsx, app/pp/page.tsx, ...
PageRoute(k) == createRouteInfo(IF k = 1 THEN <<>> ELSE <<Repeat("p", k - 1)>>)

\* the arrays of 1..n routes with the page file each filePath names
RECURSIVE PageLists(_)
PageLists(n) ==
  IF n = 0 THEN {}
  ELSE LET shorter == PageLists(n - 1) \cup {<<>>}
       IN (shorter \ {<<>>}) \cup
          {Append(l, [route |-> PageRoute(Len(l) + 1), file |-> f]) :
             l \in {x \in shorter : Len(x) = n - 1}, f \in PageFiles}

\* options.contentOptions: absent, or with a maxContentLength
ContentOptionsChoices ==
  {<<>>, [maxContentLength |-> 3], [maxContentLength |-> 5]}

InitContent ==
  /\ area = "content"
  /\ pc = "enriching"
  /\ pages \in PageLists(MaxPages)
  /\ contentOptions \in ContentOptionsChoices
  /\ enrichedRoutes = <<>>
  /\ thrown = "none"
  /\ PathIdle /\ OrderIdle /\ UrlIdle /\ WrapIdle /\ LaterIdle

\* { ...route, content, headings }
EnrichedRoute(route, text, headings) ==
  IF text = Undefined
  THEN [filePath |-> route.filePath, urlPath |-> route.urlPath, type |-> route.type,
        headings |-> headings]
  ELSE [filePath |-> route.filePath, urlPath |-> route.urlPath, type |-> route.type,
        content |-> text, headings |-> headings]

\* one iteration of the loop of enrichRoutesWithContent in which
\* extractPageContent returns; after the last one the array is returned
EnrichRoute ==
  /\ area = "content"
  /\ pc = "enriching"
  /\ Len(enrichedRoutes) < Len(pages)
  /\ LET page == pages[Len(enrichedRoutes) + 1]
         result == extractPageContent(page.file, contentOptions)
     IN /\ "value" \in DOMAIN result
        /\ enrichedRoutes' =
             Append(enrichedRoutes,
                    EnrichedRoute(page.route, result.value, extractHeadings(page.file)))
  /\ pc' = IF Len(enrichedRoutes') = Len(pages) THEN "returned" ELSE "enriching"
  /\ UNCHANGED <<area, pages, contentOptions, thrown, pathVars, orderVars, urlVars,
                 wrapVars, laterVars>>

\* one iteration in which extractPageContent throws: nothing in
\* enrichRoutesWithContent catches, so its promise is rejected with the error
RejectOnThrow ==
  /\ area = "content"
  /\ pc = "enriching"
  /\ Len(enrichedRoutes) < Len(pages)
  /\ LET page == pages[Len(enrichedRoutes) + 1]
         result == extractPageContent(page.file, contentOptions)
     IN /\ "error" \in DOMAIN result
        /\ thrown' = result.error
  /\ pc' = "rejected"
  /\ UNCHANGED <<area, pages, contentOptions, enrichedRoutes, pathVars, orderVars,
                 urlVars, wrapVars, laterVars>>

NextContent == EnrichRoute \/ RejectOnThrow

SpecContent == InitContent /\ [][NextContent]_vars

--------------------------------------------------------------------------
(* Specification SpecWrap: a document text is wrapped into a route handler *)

\* the characters of a document: a letter, a line break, and the characters
\* that mean something inside a template literal
ContentChars == {"a", "n", "\n", "\\", Backtick, "$", "{"}

RECURSIVE Texts(_)
Texts(n) ==
  IF n = 0 THEN {<<>>}
  ELSE LET shorter == Texts(n - 1)
       IN shorter \cup {Append(t, c) : t \in shorter, c \in ContentChars}

InitWrap ==
  /\ area = "wrap"
  /\ pc = "rendered"
  /\ content \in Texts(MaxContent)
  /\ routeHandler = <<>>
  /\ PathIdle /\ OrderIdle /\ UrlIdle /\ ContentIdle /\ LaterIdle

\* writeGeneratedFiles: writeFile(..., generateRouteHandlerFile(content))
WriteRouteHandler ==
  /\ area = "wrap"
  /\ pc = "rendered"
  /\ routeHandler' = generateRouteHandlerFile(content)
  /\ pc' = "written"
  /\ UNCHANGED <<area, content, pathVars, orderVars, urlVars, contentVars, laterVars>>

NextWrap == WriteRouteHandler

SpecWrap == InitWrap /\ [][NextWrap]_vars

--------------------------------------------------------------------------
(* Specification SpecPlugin: the beforeCompile hook of one plugin instance *)
(* fires, and the generations it awaits settle, in any interleaving        *)

\* compiler.options.mode
Modes == {"production", "development", "none"}

InitPlugin ==
  /\ area = "plugin"
  /\ pc = "applied"
  /\ \E mode \in Modes, skip \in BOOLEAN :
       plugin = [mode |-> mode, skipInDevelopment |-> skip, hasRun |-> FALSE,
                 fired |-> 0, started |-> 0, inFlight |-> 0, errorsLogged |-> 0,
                 callbacks |-> 0]
  /\ perPage = <<>> /\ run = <<>> /\ custom = <<>> /\ meta = <<>> /\ render = <<>> /\ scan = <<>>
  /\ EarlierIdle

\* webpack calls the beforeCompile hook
FireBeforeCompile ==
  /\ area = "plugin"
  /\ plugin.fired < MaxFirings
  /\ plugin' = beforeCompile(plugin)
  /\ UNCHANGED <<area, pc, earlierVars, perPage, run, custom, meta, render, scan>>

\* an awaited generateLLMFiles resolves or rejects
GenerationSettles ==
  /\ area = "plugin"
  /\ plugin.inFlight > 0
  /\ \E rejected \in BOOLEAN : plugin' = afterGenerate(plugin, rejected)
  /\ UNCHANGED <<area, pc, earlierVars, perPage, run, custom, meta, render, scan>>

NextPlugin == FireBeforeCompile \/ GenerationSettles

SpecPlugin == InitPlugin /\ [][NextPlugin]_vars

\* the same hook with the promise of generateLLMFiles settling once it is
\* awaited: the pipeline is a finite sequence of synchronous file system
\* calls and loops over finite arrays, and the event loop runs the
\* continuation of a settled promise; webpack is free to stop firing
SpecPluginLive == InitPlugin /\ [][NextPlugin]_vars /\ WF_vars(GenerationSettles)

--------------------------------------------------------------------------
(* Specification SpecPerPage: generatePerPageRoutes filters the routes and *)
(* writes one route handler per surviving route                            *)

\* the directories of the pages: the root, plain directories, route groups
\* first, in the middle and last, and a dynamic segment
PerPageDirs ==
  {<<>>,
   <<<<"a">>>>,
   <<<<"a">>, <<"b">>>>,
   <<<<"(", "g", ")">>, <<"a">>>>,
   <<<<"a">>, <<"(", "g", ")">>>>,
   <<<<"(", "g", ")">>>>,
   <<<<"i", "n", "d", "e", "x">>>>,
   <<<<"b">>, <<"[", "i", "d", "]">>>>}

PerPageRoutes == {createRouteInfo(dirs) : dirs \in PerPageDirs}

\* arrays of at most n distinct routes
RECURSIVE PerPageRouteLists(_)
PerPageRouteLists(n) ==
  IF n = 0 THEN {<<>>}
  ELSE LET shorter == PerPageRouteLists(n - 1)
       IN shorter \cup
          UNION {{Append(l, r) :
                    r \in {x \in PerPageRoutes : \A k \in 1..Len(l) : l[k] # x}} :
                 l \in shorter}

\* app/a/**, a/b/**, b/**
PatternLists ==
  {<<>>,
   <<<<"a", "p", "p", "/", "a", "/", "*", "*">>>>,
   <<<<"a", "/", "b", "/", "*", "*">>, <<"b", "/", "*", "*">>>>}

\* options.perPageOptions: absent, or with include and exclude patterns
PerPageOptionsChoices ==
  {<<>>}
    \cup {[includePatterns |-> inc] : inc \in PatternLists}
    \cup {[excludePatterns |-> exc] : exc \in PatternLists \ {<<>>}}
    \cup {[includePatterns |-> inc, excludePatterns |-> exc, includeMetadata |-> FALSE] :
            inc \in PatternLists \ {<<>>}, exc \in PatternLists \ {<<>>}}

\* what the file system does to the write of one route handler
WriteFailures == {"none", "mkdir", "write"}

InitPerPage ==
  /\ area = "per-page"
  /\ pc = "called"
  /\ \E rs \in PerPageRouteLists(MaxPages), ppo \in PerPageOptionsChoices,
        enabled \in BOOLEAN :
       perPage = [routes |-> rs,
                  options |-> [generatePerPageMarkdown |-> enabled, siteUrl |-> SiteUrl,
                               perPageOptions |-> ppo],
                  filtered |-> <<>>, index |-> 1, generatedFiles |-> <<>>,
                  disk |-> <<>>, attempts |-> <<>>, logged |-> <<>>]
  /\ plugin = <<>> /\ run = <<>> /\ custom = <<>> /\ meta = <<>> /\ render = <<>> /\ scan = <<>>
  /\ EarlierIdle

\* generatePerPageRoutes up to its loop: the early return when per-page
\* generation is off, else filterRoutes
EnterPerPage ==
  /\ area = "per-page"
  /\ pc = "called"
  /\ IF ~perPage.options.generatePerPageMarkdown
     THEN perPage' = perPage /\ pc' = "returned"
     ELSE LET filtered == filterRoutes(perPage.routes, perPage.options)
          IN /\ perPage' = [perPage EXCEPT !.filtered = filtered]
             /\ pc' = IF Len(filtered) = 0 THEN "returned" ELSE "looping"
  /\ UNCHANGED <<area, earlierVars, plugin, run, custom, meta, render, scan>>

\* one iteration of the loop; after the last one generatedFiles is returned
WritePerPageRoute ==
  /\ area = "per-page"
  /\ pc = "looping"
  /\ \E failure \in WriteFailures : perPage' = perPageStep(perPage, failure)
  /\ pc' = IF perPage'.index > Len(perPage.filtered) THEN "returned" ELSE "looping"
  /\ UNCHANGED <<area, earlierVars, plugin, run, custom, meta, render, scan>>

NextPerPage == EnterPerPage \/ WritePerPageRoute

SpecPerPage == InitPerPage /\ [][NextPerPage]_vars

--------------------------------------------------------------------------
(* Specification SpecRun: one call of generateLLMFiles, from the scan of   *)
(* the app directory to the onGenerate callback, with a file system that   *)
(* may refuse any write                                                    *)

\* the page files of the run: a module, no file content, text the parser
\* rejects
RunFiles == {HeadingModule, [kind |-> "missing"], BrokenLong}

\* what fs makes of options.appDir
Trees ==
  {[kind |-> "missing"], [kind |-> "unreadable"], [kind |-> "dir", entries |-> <<>>]}
    \cup {[kind |-> "dir", entries |-> l] :
            l \in {x \in PageLists(MaxPages) :
                     \A k \in 1..Len(x) : x[k].file \in RunFiles}}

\* p.txt: the link index of the pages under app/p
ShopFile ==
  [filename |-> <<"p", ".", "t", "x", "t">>, title |-> <<"P">>, description |-> <<"s">>,
   includePatterns |-> <<<<"a", "p", "p", "/", "p", "/", "*", "*">>>>]

\* all.txt: the full digest of every page
AllFile ==
  [filename |-> <<"a", "l", "l", ".", "t", "x", "t">>, title |-> <<"A">>, description |-> <<"d">>,
   includePatterns |-> <<<<"a", "p", "p", "/", "*", "*">>>>, fullContent |-> TRUE]

RunOptionsChoices ==
  {Spread([NoOptions EXCEPT !.siteUrl = SiteUrl],
          Spread(flags, Spread(output, Spread(extras, callback)))) :
     flags \in {<<>>, [generateLLMsTxt |-> FALSE], [generateLLMsFullTxt |-> FALSE],
                [generateLLMsTxt |-> FALSE, generateLLMsFullTxt |-> FALSE]},
     output \in {<<>>, [outputType |-> "static"]},
     extras \in {<<>>, [customFiles |-> <<ShopFile>>], [generatePerPageMarkdown |-> TRUE],
                 [generatePerPageMarkdown |-> FALSE],
                 [customFiles |-> <<ShopFile, AllFile>>, generatePerPageMarkdown |-> TRUE]},
     callback \in {<<>>, [onGenerate |-> "callback"]}}

InitRun ==
  /\ area = "run"
  /\ pc = "called"
  /\ \E tree \in Trees, opts \in RunOptionsChoices :
       run = [tree |-> tree, options |-> opts, routes |-> <<>>, stage |-> "called",
              generatedFiles |-> <<>>, disk |-> <<>>, documents |-> <<>>, warnings |-> 0,
              errorsLogged |-> 0, failedAt |-> "none", outcome |-> "pending",
              onGenerateCalls |-> <<>>]
  /\ plugin = <<>> /\ perPage = <<>> /\ custom = <<>> /\ meta = <<>> /\ render = <<>> /\ scan = <<>>
  /\ EarlierIdle

\* step 1: scanAppDirectory, and the return when no route is found
ScanApp ==
  /\ area = "run"
  /\ run.stage = "called"
  /\ run' = scanStep(run)
  /\ pc' = run'.stage
  /\ UNCHANGED <<area, earlierVars, plugin, perPage, custom, meta, render, scan>>

\* steps 2 to 4: metadata, content, sortRoutesByPriority
EnrichAndSort ==
  /\ area = "run"
  /\ run.stage = "scanned"
  /\ run' = enrichStep(run)
  /\ pc' = run'.stage
  /\ UNCHANGED <<area, earlierVars, plugin, perPage, custom, meta, render, scan>>

\* step 5, writeGeneratedFiles: llms.txt
WriteLLMsTxt ==
  /\ area = "run"
  /\ run.stage = "sorted"
  /\ \E failure \in WriteFailures : run' = writeLLMsTxtStep(run, failure)
  /\ pc' = run'.stage
  /\ UNCHANGED <<area, earlierVars, plugin, perPage, custom, meta, render, scan>>

\* writeGeneratedFiles: llms-full.txt
WriteLLMsFullTxt ==
  /\ area = "run"
  /\ run.stage = "llms.txt"
  /\ \E failure \in WriteFailures : run' = writeLLMsFullTxtStep(run, failure)
  /\ pc' = run'.stage
  /\ UNCHANGED <<area, earlierVars, plugin, perPage, custom, meta, render, scan>>

\* writeGeneratedFiles: the custom files, the write of any one of them
\* failing (failAt = 0: none fails)
WriteCustomFiles ==
  /\ area = "run"
  /\ run.stage = "llms-full.txt"
  /\ \E failAt \in 0..(IF "customFiles" \in DOMAIN run.options
                       THEN Len(run.options.customFiles) ELSE 0) :
       run' = customFilesStep(run, failAt)
  /\ pc' = run'.stage
  /\ UNCHANGED <<area, earlierVars, plugin, perPage, custom, meta, render, scan>>

\* writeGeneratedFiles: the per-page handlers and the return; back in
\* generateLLMFiles, the report and the onGenerate callback
FinishRun ==
  /\ area = "run"
  /\ run.stage = "custom"
  /\ \E failures \in [1..Len(run.routes) -> {"none", "write"}] :
       run' = finishStep(run, failures)
  /\ pc' = run'.stage
  /\ UNCHANGED <<area, earlierVars, plugin, perPage, custom, meta, render, scan>>

NextRun ==
  ScanApp \/ EnrichAndSort \/ WriteLLMsTxt \/ WriteLLMsFullTxt \/ WriteCustomFiles
    \/ FinishRun

SpecRun == InitRun /\ [][NextRun]_vars

--------------------------------------------------------------------------
(* Specification SpecCustom: the loop of writeGeneratedFiles over          *)
(* options.customFiles, one filtered document per custom file              *)

\* app/page.tsx, app/a/page.tsx, app/a/b/page.tsx, app/b/page.tsx
CustomRoutes ==
  {createRouteInfo(<<>>), createRouteInfo(<<<<"a">>>>),
   createRouteInfo(<<<<"a">>, <<"b">>>>), createRouteInfo(<<<<"b">>>>)}

\* arrays of at most n distinct routes
RECURSIVE CustomRouteLists(_)
CustomRouteLists(n) ==
  IF n = 0 THEN {<<>>}
  ELSE LET shorter == CustomRouteLists(n - 1)
       IN shorter \cup
          UNION {{Append(l, r) :
                    r \in {x \in CustomRoutes : \A k \in 1..Len(l) : l[k] # x}} :
                 l \in shorter}

\* app/a/**, app/**, b/**, p/**
CustomIncludes == {<<<<"a", "p", "p", "/", "a", "/", "*", "*">>>>, <<<<"a", "p", "p", "/", "*", "*">>>>, <<<<"b", "/", "*", "*">>>>, <<<<"p", "/", "*", "*">>>>}

\* app/a/b/**, **/b/**
CustomExcludes == {<<<<"a", "p", "p", "/", "a", "/", "b", "/", "*", "*">>>>, <<<<"*", "*", "/", "b", "/", "*", "*">>>>}

\* a CustomLLMFile: excludePatterns and fullContent are optional
CustomFiles ==
  {Spread([filename |-> <<"c", ".", "t", "x", "t">>, title |-> <<"C">>, description |-> <<"d">>,
           includePatterns |-> inc],
          Spread(exc, full)) :
     inc \in CustomIncludes,
     exc \in {<<>>} \cup {[excludePatterns |-> e] : e \in CustomExcludes},
     full \in {<<>>, [fullContent |-> TRUE]}}

\* options.customFiles: one custom file, or two
CustomFileLists ==
  {<<cf>> : cf \in CustomFiles}
    \cup {<<cf, [cf EXCEPT !.filename = <<"d", ".", "t", "x", "t">>]>> :
            cf \in {x \in CustomFiles : "excludePatterns" \in DOMAIN x}}

InitCustom ==
  /\ area = "custom"
  /\ pc = "looping"
  /\ \E rs \in CustomRouteLists(MaxPages), cfs \in CustomFileLists,
        output \in {<<>>, [outputType |-> "static"]} :
       custom = [routes |-> rs,
                 options |-> Spread([NoOptions EXCEPT !.siteUrl = SiteUrl],
                                    Spread([customFiles |-> cfs], output)),
                 index |-> 1, stage |-> "llms-full.txt", generatedFiles |-> <<>>,
                 disk |-> <<>>, documents |-> <<>>, errorsLogged |-> 0,
                 failedAt |-> "none", outcome |-> "pending"]
  /\ plugin = <<>> /\ perPage = <<>> /\ run = <<>> /\ meta = <<>> /\ render = <<>> /\ scan = <<>>
  /\ EarlierIdle

\* one iteration of the loop: the filtered document of the next custom file
\* is rendered and written, or its write throws
WriteCustomFile ==
  /\ area = "custom"
  /\ pc = "looping"
  /\ custom.index <= Len(custom.options.customFiles)
  /\ \E failure \in WriteFailures :
       LET written == customFileStep(custom, custom.options.customFiles[custom.index],
                                     failure)
       IN custom' = [written EXCEPT !.index = @ + 1]
  /\ pc' = IF custom'.stage = "settled" THEN "rejected"
           ELSE IF custom'.index > Len(custom.options.customFiles) THEN "written"
           ELSE "looping"
  /\ UNCHANGED <<area, earlierVars, plugin, perPage, run, meta, render, scan>>

NextCustom == WriteCustomFile

SpecCustom == InitCustom /\ [][NextCustom]_vars

--------------------------------------------------------------------------
(* Specification SpecRender: generateLLMsTxt and generateLLMsFullTxt render *)
(* enriched routes together with the configured custom sections            *)

\* what the enrichment stages add to a route: nothing, a description, a
\* social-preview description, an empty description, all of it with page
\* content, headings alone, headings with empty content, or headings with
\* content
Enrichments ==
  {<<>>,
   [metadata |-> [description |-> <<"m">>]],
   [metadata |-> [openGraph |-> [description |-> <<"o">>]]],
   [metadata |-> [description |-> <<>>, openGraph |-> [title |-> <<"O">>]]],
   [metadata |-> [title |-> <<"T", " ", "|", " ", "S">>, description |-> <<"m">>,
                  openGraph |-> [description |-> <<"o">>]],
    content |-> <<"c">>],
   [headings |-> <<[level |-> 1, text |-> <<"H">>], [level |-> 4, text |-> <<"K">>]>>],
   [content |-> <<>>, headings |-> <<[level |-> 1, text |-> <<"H">>]>>],
   [content |-> <<"c">>,
    headings |-> <<[level |-> 1, text |-> <<"H">>], [level |-> 4, text |-> <<"K">>]>>]}

\* app/page.tsx, app/a/page.tsx, app/b/page.tsx, enriched
RenderRoutes ==
  {Spread(createRouteInfo(dirs), e) :
     dirs \in {<<>>, <<<<"a">>>>, <<<<"b">>>>}, e \in Enrichments}

\* arrays of at most n routes of distinct pages
RECURSIVE RenderRouteLists(_)
RenderRouteLists(n) ==
  IF n = 0 THEN {<<>>}
  ELSE LET shorter == RenderRouteLists(n - 1)
       IN shorter \cup
          UNION {{Append(l, r) :
                    r \in {x \in RenderRoutes :
                             \A k \in 1..Len(l) : l[k].filePath # x.filePath}} :
                 l \in shorter}

\* a custom section without description, of two items
LinksSection ==
  [title |-> <<"X">>, description |-> Undefined,
   items |-> <<[title |-> <<"I">>, url |-> <<"h", "t", "t", "p", "s", ":", "/", "/", "x", "/", "i">>, description |-> <<"d">>],
               [title |-> <<"J">>, url |-> <<"h", "t", "t", "p", "s", ":", "/", "/", "x", "/", "j">>, description |-> Undefined]>>]

\* a custom section with a description, of one item
MoreSection ==
  [title |-> <<"Y">>, description |-> <<"e">>,
   items |-> <<[title |-> <<"K">>, url |-> <<"h", "t", "t", "p", "s", ":", "/", "/", "x", "/", "k">>, description |-> <<>>]>>]

\* options.sources: none, or app/a/** -> Docs
RenderSources ==
  {<<>>, <<[pattern |-> <<"a", "p", "p", "/", "a", "/", "*", "*">>, section |-> <<"D", "o", "c", "s">>, priority |-> "high"]>>}

InitRender ==
  /\ area = "render"
  /\ pc = "sorted"
  /\ \E rs \in RenderRouteLists(MaxPages), srcs \in RenderSources,
        cs \in {<<>>, <<LinksSection>>, <<LinksSection, MoreSection>>} :
       render = [routes |-> rs,
                 options |-> [NoOptions EXCEPT !.siteUrl = SiteUrl, !.sources = srcs,
                                               !.customSections = cs],
                 kind |-> "none", parts |-> <<>>]
  /\ plugin = <<>> /\ perPage = <<>> /\ run = <<>> /\ custom = <<>> /\ meta = <<>> /\ scan = <<>>
  /\ EarlierIdle

\* content = generateLLMsTxt(routes, options)
RenderIndex ==
  /\ area = "render"
  /\ pc = "sorted"
  /\ render' = [render EXCEPT !.kind = "llms.txt",
                              !.parts = generateLLMsTxt(render.routes, render.options)]
  /\ pc' = "rendered"
  /\ UNCHANGED <<area, earlierVars, plugin, perPage, run, custom, meta, scan>>

\* content = generateLLMsFullTxt(routes, options)
RenderFull ==
  /\ area = "render"
  /\ pc = "sorted"
  /\ render' = [render EXCEPT !.kind = "llms-full.txt",
                              !.parts = generateLLMsFullTxt(render.routes, render.options)]
  /\ pc' = "rendered"
  /\ UNCHANGED <<area, earlierVars, plugin, perPage, run, custom, meta, scan>>

NextRender == RenderIndex \/ RenderFull

SpecRender == InitRender /\ [][NextRender]_vars

--------------------------------------------------------------------------
(* Specification SpecMeta: getBestTitle derives the title of a route from  *)
(* its metadata and its URL                                                *)

\* the directories of the pages: the root, a plain name, hyphenated names,
\* and a trailing route group
TitledDirs ==
  {<<>>, <<<<"a">>>>, <<<<"m", "y", "-", "p", "a", "g", "e">>>>, <<<<"a">>, <<"b", "-", "c">>>>, <<<<"a">>, <<"(", "g", ")">>>>}

\* metadata.title as parseMetadataFromContent may return it: plain, with a
\* template suffix, with several pipes, padded, a suffix only, blank, empty
MetadataTitles ==
  {<<"T">>, <<"T", " ", "|", " ", "S">>, <<"A", "|", "B", "|", "C">>, <<" ", "T", " ">>, <<"|", " ", "S">>, <<" ">>, <<>>}

\* route.metadata: undefined, or with a title and a social-preview title,
\* each optional
MetadataChoices ==
  {<<>>, [metadata |-> <<>>]}
    \cup {[metadata |-> Spread(ti, og)] :
            ti \in {<<>>} \cup {[title |-> x] : x \in MetadataTitles},
            og \in {<<>>, [openGraph |-> <<>>], [openGraph |-> [title |-> <<"O">>]],
                    [openGraph |-> [title |-> <<>>]]}}

InitMeta ==
  /\ area = "meta"
  /\ pc = "enriched"
  /\ \E dirs \in TitledDirs, md \in MetadataChoices :
       meta = [route |-> Spread(createRouteInfo(dirs), md), title |-> Undefined]
  /\ plugin = <<>> /\ perPage = <<>> /\ run = <<>> /\ custom = <<>> /\ render = <<>> /\ scan = <<>>
  /\ EarlierIdle

\* const title = getBestTitle(route)
DeriveTitle ==
  /\ area = "meta"
  /\ pc = "enriched"
  /\ meta' = [meta EXCEPT !.title = getBestTitle(meta.route)]
  /\ pc' = "titled"
  /\ UNCHANGED <<area, earlierVars, plugin, perPage, run, custom, render, scan>>

NextMeta == DeriveTitle

SpecMeta == InitMeta /\ [][NextMeta]_vars

--------------------------------------------------------------------------
(* Specification SpecScan: scanAppDirectory walks an app tree under the    *)
(* default exclusions and the caller's exclude patterns                    *)

\* the files a tree of the model is made of
TreeFiles ==
  {<<<<"p", "a", "g", "e", ".", "t", "s", "x">>>>,
   <<<<"a">>, <<"p", "a", "g", "e", ".", "t", "s", "x">>>>,
   <<<<"a">>, <<"p", "a", "g", "e", ".", "t", "s">>>>,
   <<<<"a">>, <<"l", "a", "y", "o", "u", "t", ".", "t", "s", "x">>>>,
   <<<<"a">>, <<"r", "o", "u", "t", "e", ".", "t", "s">>>>,
   <<<<"a">>, <<"_", "c", ".", "t", "s", "x">>>>,
   <<<<"a">>, <<".", "h", "i", "d", "d", "e", "n">>>>,
   <<<<"a">>, <<"p", "a", "g", "e", ".", "j", "s">>>>,
   <<<<"a", "p", "i">>, <<"p", "a", "g", "e", ".", "t", "s", "x">>>>,
   <<<<"a", "p", "i">>, <<"h", "e", "l", "l", "o">>, <<"r", "o", "u", "t", "e", ".", "t", "s">>>>,
   <<<<"a", "p", "i">>, <<"h", "e", "l", "l", "o">>, <<"p", "a", "g", "e", ".", "t", "s", "x">>>>,
   <<<<"a", "d", "m", "i", "n">>, <<"p", "a", "g", "e", ".", "t", "s", "x">>>>,
   <<<<"a", "d", "m", "i", "n">>, <<"b">>, <<"p", "a", "g", "e", ".", "t", "s", "x">>>>,
   <<<<"_", "i", "n", "t", "e", "r", "n", "a", "l">>, <<"p", "a", "g", "e", ".", "t", "s", "x">>>>,
   <<<<"(", "g", ")">>, <<"b">>, <<"p", "a", "g", "e", ".", "t", "s", "x">>>>,
   <<<<".", "g", "i", "t">>, <<"p", "a", "g", "e", ".", "t", "s", "x">>>>,
   <<<<"n", "o", "d", "e", "_", "m", "o", "d", "u", "l", "e", "s">>, <<"m">>, <<"p", "a", "g", "e", ".", "t", "s", "x">>>>}

\* the most files in a tree
MaxFiles == 3

\* the trees of at most n files
RECURSIVE Forests(_)
Forests(n) ==
  IF n = 0 THEN {{}}
  ELSE LET smaller == Forests(n - 1)
       IN smaller \cup {fs \cup {p} : fs \in smaller, p \in TreeFiles}

\* options.excludePatterns: absent, empty, **/admin/** with **/_*.tsx,
\* admin, a/**
ScanOptionsChoices ==
  {<<>>, [excludePatterns |-> <<>>],
   [excludePatterns |-> <<<<"*", "*", "/", "a", "d", "m", "i", "n", "/", "*", "*">>, <<"*", "*", "/", "_", "*", ".", "t", "s", "x">>>>],
   [excludePatterns |-> <<<<"a", "d", "m", "i", "n">>>>],
   [excludePatterns |-> <<<<"a", "/", "*", "*">>>>]}

InitScan ==
  /\ area = "scan"
  /\ pc = "called"
  /\ \E files \in Forests(MaxFiles), opts \in ScanOptionsChoices :
       scan = [files |-> files, options |-> opts, routes |-> <<>>, read |-> <<>>]
  /\ plugin = <<>> /\ perPage = <<>> /\ run = <<>> /\ custom = <<>> /\ meta = <<>>
  /\ render = <<>>
  /\ EarlierIdle

\* scanAppDirectory: the recursive walk from the app directory
ScanTree ==
  /\ area = "scan"
  /\ pc = "called"
  /\ LET walked == scanAppTree(scan.files, scan.options)
     IN scan' = [scan EXCEPT !.routes = walked.routes, !.read = walked.read]
  /\ pc' = "scanned"
  /\ UNCHANGED <<area, earlierVars, plugin, perPage, run, custom, meta, render>>

NextScan == ScanTree

SpecScan == InitScan /\ [][NextScan]_vars

--------------------------------------------------------------------------
(* Specification SpecEndpoint: the markdown of a page is wrapped into the  *)
(* route handler of its per-page endpoint                                  *)

InitEndpoint ==
  /\ area = "endpoint"
  /\ pc = "rendered"
  /\ content \in Texts(MaxContent)
  /\ routeHandler = <<>>
  /\ PathIdle /\ OrderIdle /\ UrlIdle /\ ContentIdle /\ LaterIdle

\* generatePerPageRoutes: routeHandlerContent = createRouteHandlerContent(markdownContent)
WriteEndpointHandler ==
  /\ area = "endpoint"
  /\ pc = "rendered"
  /\ routeHandler' = createRouteHandlerContent(content)
  /\ pc' = "written"
  /\ UNCHANGED <<area, content, pathVars, orderVars, urlVars, contentVars, laterVars>>

NextEndpoint == WriteEndpointHandler

SpecEndpoint == InitEndpoint /\ [][NextEndpoint]_vars

--------------------------------------------------------------------------
(* Claims about filePathToUrlPath, under SpecPath *)

IsGroup(seg) == seg \in GroupSegments

\* the name inside a dynamic, catch-all or optional catch-all directory name
ParamName(seg) ==
  IF seg \in OptionalCatchAllSegments THEN SubSeq(seg, 6, Len(seg) - 2)
  ELSE IF seg \in CatchAllSegments THEN SubSeq(seg, 5, Len(seg) - 1)
  ELSE SubSeq(seg, 2, Len(seg) - 1)

\* the URL segment the routing convention assigns to a directory name
ConventionSegment(seg) ==
  IF seg \in OptionalCatchAllSegments THEN <<":">> \o ParamName(seg)
  ELSE IF seg \in CatchAllSegments THEN <<"*">>
  ELSE IF seg \in DynamicSegments THEN <<":">> \o ParamName(seg)
  ELSE seg

ConventionSegments(l) == [k \in 1..Len(l) |-> ConventionSegment(l[k])]

HasBracket(s) == \E k \in 1..Len(s) : s[k] \in {"[", "]"}

\* C4: the URL path filePathToUrlPath returns begins with a single slash and
\* has no trailing slash unless it is exactly "/".
C4_LeadingSlashNoTrailingSlash ==
  (area = "path" /\ pc = "done") =>
    /\ StartsWith(urlPath, <<"/">>)
    /\ ~StartsWith(urlPath, <<"/", "/">>)
    /\ (urlPath = <<"/">> \/ ~EndsWith(urlPath, <<"/">>))

\* C5: every optional catch-all [[...name]] becomes :name, every catch-all
\* [...name] becomes *, every dynamic [name] becomes :name, and no bracket
\* survives. The segment-by-segment result is stated for paths without
\* grouping segments, so that it does not rest on how those are removed.
C5_DynamicSegmentsConverted ==
  (area = "path" /\ pc = "done") =>
    /\ ~HasBracket(urlPath)
    /\ (\A k \in 1..Len(dirNames) : ~IsGroup(dirNames[k])) =>
         urlPath = <<"/">> \o Join(ConventionSegments(dirNames), <<"/">>)

\* C6: the URL of a path equals the URL of the same path with every grouping
\* segment deleted, wherever the grouping segments stand.
C6_GroupSegmentsContributeNothing ==
  (area = "path" /\ pc = "done") =>
    urlPath = filePathToUrlPath(
                Join(SelectSeq(dirNames, LAMBDA seg : ~IsGroup(seg)), <<"/">>))

--------------------------------------------------------------------------
(* Claims about ordering, grouping and rendering, under SpecOrder *)

\* the sources whose pattern glob-matches the route, by index
MatchingSources(route) ==
  {i \in 1..Len(options.sources) : MatchesSource(route, options.sources[i])}

Least(S) == CHOOSE i \in S : \A j \in S : i <= j

\* the rank the route is tagged with: that of the first matching source in
\* declaration order, medium (2) when no source matches
Tier(route) ==
  IF MatchingSources(route) = {} THEN 2
  ELSE priorityMap(options.sources[Least(MatchingSources(route))].priority)

\* the section the route belongs to: that of the first matching source
SectionOf(route) ==
  IF MatchingSources(route) = {} THEN PagesSection
  ELSE options.sources[Least(MatchingSources(route))].section

\* r1 is ordered strictly before r2: higher rank, or equal rank and lesser URL
OrderedBefore(r1, r2) ==
  \/ Tier(r1) > Tier(r2)
  \/ (Tier(r1) = Tier(r2) /\ LocaleLess(r1.urlPath, r2.urlPath))

\* the line that carries the route in the document last rendered
RouteLine(route) ==
  IF pc = "llms.txt" THEN RouteLinkLine(route, options.siteUrl)
  ELSE UrlLine(buildUrl(route.urlPath, options.siteUrl))

DocPosition(route) ==
  IF \E k \in 1..Len(doc) : doc[k] = RouteLine(route)
  THEN CHOOSE k \in 1..Len(doc) : doc[k] = RouteLine(route)
  ELSE 0

\* C1: in the link index and the full digest rendered from the sorted routes,
\* every high route comes before every medium route, every medium before
\* every low, and within a tier the routes are in ascending URL order.
\* Stated where every route matches at most one source, so that its tier is
\* the same whichever matching source is taken to tag it.
C1_RenderedInPriorityOrder ==
  ( /\ area = "order"
    /\ pc \in {"llms.txt", "llms-full.txt"}
    /\ \A k \in 1..Len(routes) : Cardinality(MatchingSources(routes[k])) <= 1 )
  => \A i, j \in 1..Len(routes) :
       OrderedBefore(routes[i], routes[j]) =>
         /\ DocPosition(routes[i]) > 0
         /\ DocPosition(routes[i]) < DocPosition(routes[j])

\* C2: sortRoutesByPriority leaves the routes in descending rank, ties in
\* ascending URL path, the rank being that of the first matching source.
C2_SortedByFirstMatchRank ==
  (area = "order" /\ pc = "sorted") =>
    \A i, j \in 1..Len(routes) :
      i < j => ~OrderedBefore(routes[j], routes[i])

\* the places (section index, position) at which a route stands in sections
PlacesOf(route) ==
  {<<k, n>> \in (1..Len(sections)) \X (1..MaxRoutes + 1) :
     n <= Len(sections[k].routes) /\ sections[k].routes[n] = route}

\* C3: groupRoutesBySection places each route in exactly one section, that
\* of the first matching source or "Pages"; no section is empty and the
\* sections together hold exactly the input routes.
C3_EachRouteInExactlyOneSection ==
  (area = "order" /\ pc = "grouped") =>
    /\ \A i \in 1..Len(routes) :
         /\ Cardinality(PlacesOf(routes[i])) = 1
         /\ \A pl \in PlacesOf(routes[i]) :
              sections[pl[1]].section = SectionOf(routes[i])
    /\ \A k \in 1..Len(sections) :
         /\ Len(sections[k].routes) > 0
         /\ \A n \in 1..Len(sections[k].routes) :
              \E i \in 1..Len(routes) : routes[i] = sections[k].routes[n]
         /\ \A k2 \in 1..Len(sections) :
              sections[k2].section = sections[k].section => k2 = k

\* a grouping in which a route matched two sources of different sections
\* while another route matched none
C3_Witness ==
  /\ area = "order"
  /\ pc = "grouped"
  /\ Len(sections) >= 2
  /\ \E i \in 1..Len(routes) :
       /\ Cardinality(MatchingSources(routes[i])) = 2
       /\ options.sources[1].section # options.sources[2].section
  /\ \E i \in 1..Len(routes) : MatchingSources(routes[i]) = {}

--------------------------------------------------------------------------
(* Claims about buildUrl, under SpecUrl *)

\* the length of the base up to its trailing slash, if it has one
BaseLength(site) == Len(site) - (IF EndsWith(site, <<"/">>) THEN 1 ELSE 0)

--------------------------------------------------------------------------
(* Claims about content extraction, under SpecContent *)

\* the pages extractPageContent has been called for
Extracted == 1..(Len(enrichedRoutes) + (IF thrown = "none" THEN 0 ELSE 1))

\* the text extracted from a page file before any truncation, on the
\* primary path or, when the parser rejects the file, on the fallback path
TextBeforeTruncation(file) ==
  IF file.kind = "module" THEN CleanedText(file.nodes) ELSE FallbackText(file.text)

\* the effective maxContentLength of the run
Limit == MaxContentLengthOf(contentOptions)

\* C8: on the primary and on the fallback path, a text longer than
\* maxContentLength comes back as its first maxContentLength characters
\* followed by "...", and a text at or under the limit comes back unchanged.
C8_TruncationOnBothPaths ==
  area = "content" =>
    \A k \in Extracted :
      pages[k].file.kind # "missing" =>
        LET text == TextBeforeTruncation(pages[k].file)
        IN /\ k <= Len(enrichedRoutes)
           /\ "content" \in DOMAIN enrichedRoutes[k]
           /\ IF Len(text) > Limit
              THEN /\ Len(enrichedRoutes[k].content) = Limit + 3
                   /\ enrichedRoutes[k].content = SubSeq(text, 1, Limit) \o <<".", ".", ".">>
              ELSE enrichedRoutes[k].content = text

\* C9: a page the parser rejects does not end the run: nothing is thrown,
\* the page's content is the result of the fallback extraction, and every
\* route of the input is in the returned array.
C9_ParseFailureFallsBack ==
  area = "content" =>
    /\ thrown = "none"
    /\ pc # "rejected"
    /\ pc = "returned" => Len(enrichedRoutes) = Len(pages)
    /\ \A k \in 1..Len(enrichedRoutes) :
         pages[k].file.kind = "unparsable" =>
           TextField(enrichedRoutes[k], "content")
             = fallbackContentExtraction(pages[k].file.text, contentOptions)

--------------------------------------------------------------------------
(* Claims about the route handler, under SpecWrap *)

\* C10: the template literal of the generated route handler evaluates to
\* the document text it was generated from, for every document text.
C10_WrapperReproducesDocument ==
  (area = "wrap" /\ pc = "written") =>
    EvaluateMarkdown(routeHandler) = [kind |-> "text", text |-> content]

--------------------------------------------------------------------------
(* Claims about the webpack plugin, under SpecPlugin *)

\* C11: one plugin instance starts the generation pipeline at most once,
\* however often and in whatever interleaving beforeCompile fires, and
\* never in development mode with skipInDevelopment set.
C11_PipelineStartedAtMostOnce ==
  area = "plugin" =>
    /\ plugin.started <= 1
    /\ (plugin.mode = "development" /\ plugin.skipInDevelopment) => plugin.started = 0

\* the hook fired again while the first run was still awaited
C11_Witness ==
  /\ area = "plugin"
  /\ plugin.fired >= 2
  /\ plugin.started = 1
  /\ plugin.inFlight = 1

--------------------------------------------------------------------------
(* Claims about the per-page generator, under SpecPerPage *)

\* the positions of the attempts that wrote their route handler
WrittenAttempts ==
  SelectSeq([k \in 1..Len(perPage.attempts) |-> k],
            LAMBDA k : perPage.attempts[k] = "written")

\* C12: a failure while writing one route's document is caught for that
\* route only: the call returns, every surviving route is attempted, and
\* the returned list holds one record, in order, for each route whose
\* handler was written and none for a route that failed.
C12_FailureCaughtPerRoute ==
  (area = "per-page" /\ pc = "returned" /\ perPage.options.generatePerPageMarkdown) =>
    /\ Len(perPage.attempts) = Len(perPage.filtered)
    /\ Len(perPage.generatedFiles) = Len(WrittenAttempts)
    /\ \A k \in 1..Len(WrittenAttempts) :
         /\ k <= Len(perPage.generatedFiles)
         /\ perPage.generatedFiles[k].path
              = getRouteHandlerPath(perPage.filtered[WrittenAttempts[k]], AppDir)
         /\ perPage.generatedFiles[k].routeCount = 1
    /\ \A k \in 1..Len(perPage.attempts) :
         perPage.attempts[k] = "failed" =>
           \E j \in 1..Len(perPage.logged) :
             perPage.logged[j] = perPage.filtered[k].urlPath

\* the first route failed, the second was written and recorded
C12_Witness ==
  /\ area = "per-page"
  /\ pc = "returned"
  /\ perPage.attempts = <<"failed", "written">>
  /\ Len(perPage.generatedFiles) = 1

\* the per-page patterns of the run
IncludePatterns == PatternsOf(PerPageOptionsOf(perPage.options), "includePatterns")
ExcludePatterns == PatternsOf(PerPageOptionsOf(perPage.options), "excludePatterns")

MatchesSome(route, patterns) ==
  \E k \in 1..Len(patterns) : MatchesPattern(route, patterns[k])

\* C15: a route gets a per-page document if and only if (no include
\* pattern is given, or one of them matches it) and no exclude pattern
\* matches it; a route matching both an include and an exclude pattern is
\* excluded. The surviving routes are the ones attempted, in order, and
\* each one not failed by the file system is on disk.
C15_PerPageIncludeExclude ==
  (area = "per-page" /\ pc # "called" /\ perPage.options.generatePerPageMarkdown) =>
    /\ perPage.filtered =
         SelectSeq(perPage.routes,
                   LAMBDA route :
                     /\ (Len(IncludePatterns) = 0 \/ MatchesSome(route, IncludePatterns))
                     /\ ~MatchesSome(route, ExcludePatterns))
    /\ \A k \in 1..Len(perPage.attempts) :
         perPage.attempts[k] = "written" =>
           \E w \in 1..Len(perPage.disk) :
             perPage.disk[w].path = getRouteHandlerPath(perPage.filtered[k], AppDir)

\* a route matched by an include and by an exclude pattern got no document,
\* another route of the same run got one
C15_Witness ==
  /\ area = "per-page"
  /\ pc = "returned"
  /\ Len(perPage.disk) > 0
  /\ \E k \in 1..Len(perPage.routes) :
       /\ MatchesSome(perPage.routes[k], IncludePatterns)
       /\ MatchesSome(perPage.routes[k], ExcludePatterns)
       /\ \A j \in 1..Len(perPage.filtered) : perPage.filtered[j] # perPage.routes[k]

\* the directories of a route below appDir that are not route groups
PlainDirsOf(route) ==
  SelectSeq(Split(RelativeTo(AppDir, Dirname(route.filePath)), "/"),
            LAMBDA seg : Len(seg) > 0 /\ ~(seg[1] = "(" /\ seg[Len(seg)] = ")"))

\* appDir/d1/.../dn.html.md/route.ts, or appDir/index.html.md/route.ts
ExpectedHandlerPath(route) ==
  LET dirs == PlainDirsOf(route)
  IN IF Len(dirs) = 0
     THEN AppDir \o <<"/", "i", "n", "d", "e", "x">> \o HtmlMd \o <<"/">> \o RouteTs
     ELSE AppDir \o <<"/">> \o Join(dirs, <<"/">>) \o HtmlMd \o <<"/">> \o RouteTs

\* C16: the route handler of a route is written to appDir, then the route's
\* directories without the grouping segments, the last of them renamed to
\* <segment>.html.md, then route.ts; index.html.md when no directory
\* remains; the segment before .html.md is never empty.
C16_HandlerPathFromDirectories ==
  area = "per-page" =>
    \A k \in 1..Len(WrittenAttempts) :
      LET file == perPage.generatedFiles[k].path
      IN /\ file = ExpectedHandlerPath(perPage.filtered[WrittenAttempts[k]])
         /\ ~Includes(file, <<"/">> \o HtmlMd)

--------------------------------------------------------------------------
(* Claims about generateLLMFiles, under SpecRun *)

\* the stages whose failure ends the run: route discovery and the writes
\* of the two canonical documents
FatalStages == {"scan", "llms.txt", "llms-full.txt"}

\* the artifacts on disk are those of the files recorded so far
DiskKept ==
  /\ Len(run.disk) = Len(run.generatedFiles)
  /\ \A k \in 1..Len(run.disk) : run.disk[k].path = run.generatedFiles[k].path

\* C13: when route discovery throws, or the write of llms.txt or of
\* llms-full.txt throws, the promise of generateLLMFiles is rejected (no
\* list is returned), onGenerate is not called, and what was written before
\* the failure in the same run is still on disk: llms.txt, when it is
\* generated, survives a failed write of llms-full.txt.
C13_FatalFailuresPropagate ==
  area = "run" =>
    /\ (run.tree.kind = "unreadable" /\ run.stage # "called" => run.failedAt = "scan")
    /\ run.failedAt \in FatalStages =>
         /\ run.outcome = "rejected"
         /\ run.stage = "settled"
         /\ run.onGenerateCalls = <<>>
         /\ DiskKept
         /\ (run.failedAt = "llms-full.txt" /\ NotFalse(run.options, "generateLLMsTxt")) =>
              /\ Len(run.disk) = 1
              /\ run.generatedFiles[1].type = "llms.txt"

\* the write of llms-full.txt failed after llms.txt was written, in a run
\* given an onGenerate callback
C13_Witness ==
  /\ area = "run"
  /\ run.failedAt = "llms-full.txt"
  /\ run.outcome = "rejected"
  /\ Len(run.disk) = 1
  /\ "onGenerate" \in DOMAIN run.options

\* C20: when the root directory does not exist scanAppDirectory returns the
\* empty array without throwing, and generateLLMFiles is then fulfilled with
\* nothing logged as an error, nothing written and onGenerate not called.
C20_MissingRootIsNotAnError ==
  (area = "run" /\ run.tree.kind = "missing") =>
    /\ "value" \in DOMAIN scanAppDirectory(run.tree)
    /\ scanAppDirectory(run.tree).value = <<>>
    /\ run.stage # "called" =>
         /\ run.stage = "settled"
         /\ run.outcome = "fulfilled"
         /\ run.errorsLogged = 0
         /\ run.disk = <<>>
         /\ run.generatedFiles = <<>>
         /\ run.onGenerateCalls = <<>>

\* a run over a missing root directory has settled, an onGenerate callback
\* being configured
C20_Witness ==
  /\ area = "run"
  /\ run.tree.kind = "missing"
  /\ run.stage = "settled"
  /\ run.warnings = 2
  /\ "onGenerate" \in DOMAIN run.options

--------------------------------------------------------------------------
(* Claims about the custom files, under SpecCustom *)

\* the route glob-matches an include pattern and no exclude pattern of the
\* custom file, each pattern as written or with a **/ prefix
SelectedByGlobs(route, customFile) ==
  /\ \E k \in 1..Len(customFile.includePatterns) :
        MatchesPattern(route, customFile.includePatterns[k])
  /\ ~\E k \in 1..Len(PatternsOf(customFile, "excludePatterns")) :
         MatchesPattern(route, customFile.excludePatterns[k])

\* the document holds the link line of the route (link index) or the line
\* of its URL (full digest)
RenderedIn(route, parts, site) ==
  \E k \in 1..Len(parts) :
     \/ parts[k] = RouteLinkLine(route, site)
     \/ parts[k] = UrlLine(buildUrl(route.urlPath, site))

\* C14: every custom document written renders exactly the routes that
\* glob-match an include pattern and no exclude pattern of its custom file,
\* and its routeCount is the number of routes it renders.
C14_CustomDocumentByGlobs ==
  area = "custom" =>
    \A k \in 1..Len(custom.documents) :
       LET customFile == custom.options.customFiles[k]
           rendered == {i \in 1..Len(custom.routes) :
                          RenderedIn(custom.routes[i], custom.documents[k],
                                     custom.options.siteUrl)}
       IN /\ rendered = {i \in 1..Len(custom.routes) :
                           SelectedByGlobs(custom.routes[i], customFile)}
          /\ custom.generatedFiles[k].routeCount = Cardinality(rendered)

--------------------------------------------------------------------------
(* Claims about the rendered documents, under SpecRender *)

\* the custom items of the options, section after section
CustomItems ==
  Flatten([k \in 1..Len(render.options.customSections) |->
             render.options.customSections[k].items])

\* the positions of the document at which a line begins with the prefix
LinesStarting(prefix) ==
  {k \in 1..Len(render.parts) : StartsWith(render.parts[k], prefix)}

SeparatorPositions == {k \in 1..Len(render.parts) : render.parts[k] = SeparatorLine}

\* C17: the full digest holds the aggregation notice; after the heading of
\* every route and of every custom item a separator line comes before the
\* next heading, the last route of a section included; and the document
\* holds 1 + routes + custom items separator lines.
C17_SeparatorAfterEveryEntry ==
  (area = "render" /\ render.kind = "llms-full.txt") =>
    /\ \E k \in 1..Len(render.parts) : render.parts[k] = NoticeLine
    /\ \A k \in LinesStarting(<<"#", "#", "#", " ">>) :
          \E j \in SeparatorPositions :
             /\ j > k
             /\ \A h \in (k + 1)..(j - 1) :
                   h \notin LinesStarting(<<"#", "#", " ">>)
                            \cup LinesStarting(<<"#", "#", "#", " ">>)
    /\ Cardinality(LinesStarting(<<"#", "#", "#", " ">>))
         = Len(render.routes) + Len(CustomItems)
    /\ Cardinality(SeparatorPositions) = 1 + Len(render.routes) + Len(CustomItems)

\* a full digest of two routes in one section and three custom items
C17_Witness ==
  /\ area = "render"
  /\ render.kind = "llms-full.txt"
  /\ Len(render.routes) = 2
  /\ render.options.sources = <<>>
  /\ Len(CustomItems) = 3
  /\ Cardinality(SeparatorPositions) = 6

\* the description the link line of a route is to carry: the metadata
\* description, else the social-preview description, else none
ResolvableDescription(route) ==
  IF "metadata" \notin DOMAIN route THEN Undefined
  ELSE IF "description" \in DOMAIN route.metadata /\ Len(route.metadata.description) > 0
  THEN route.metadata.description
  ELSE IF /\ "openGraph" \in DOMAIN route.metadata
          /\ "description" \in DOMAIN route.metadata.openGraph
          /\ Len(route.metadata.openGraph.description) > 0
  THEN route.metadata.openGraph.description
  ELSE Undefined

\* "- [title](url)"
BareLink(title, url) == <<"-", " ", "[">> \o title \o <<"]", "(">> \o url \o <<")">>

\* exactly one line of the document begins with the bare link, and it is
\* the bare link, or the bare link and ": description"
OneLinkLine(title, url, description) ==
  LET at == LinesStarting(BareLink(title, url))
  IN /\ Cardinality(at) = 1
     /\ \A k \in at :
          render.parts[k] =
            IF description = Undefined \/ description = <<>>
            THEN BareLink(title, url)
            ELSE BareLink(title, url) \o <<":", " ">> \o description

\* the position of the heading of the k-th custom section
CustomHeading(k) ==
  CHOOSE i \in 1..Len(render.parts) :
    render.parts[i] = <<"#", "#", " ">> \o render.options.customSections[k].title

\* C18: in the link index every route and every custom item is one line
\* "- [title](url)", with ": description" appended exactly when a
\* description is resolvable; the document holds no other link line; and
\* the custom sections come after every route line, in the order given.
C18_OneLinkLinePerEntry ==
  (area = "render" /\ render.kind = "llms.txt") =>
    /\ \A i \in 1..Len(render.routes) :
          OneLinkLine(getBestTitle(render.routes[i]),
                      buildUrl(render.routes[i].urlPath, render.options.siteUrl),
                      ResolvableDescription(render.routes[i]))
    /\ \A i \in 1..Len(CustomItems) :
          OneLinkLine(CustomItems[i].title, CustomItems[i].url, CustomItems[i].description)
    /\ Cardinality(LinesStarting(<<"-", " ", "[">>))
         = Len(render.routes) + Len(CustomItems)
    /\ \A k \in 1..Len(render.options.customSections) :
          /\ \A i \in 1..Len(render.routes) :
                \A at \in LinesStarting(
                            BareLink(getBestTitle(render.routes[i]),
                                     buildUrl(render.routes[i].urlPath,
                                              render.options.siteUrl))) :
                   at < CustomHeading(k)
          /\ k > 1 => CustomHeading(k - 1) < CustomHeading(k)
          /\ \A i \in 1..Len(render.options.customSections[k].items) :
                \A at \in LinesStarting(
                            BareLink(render.options.customSections[k].items[i].title,
                                     render.options.customSections[k].items[i].url)) :
                   /\ at > CustomHeading(k)
                   /\ k < Len(render.options.customSections) => at < CustomHeading(k + 1)

\* a link index of a route with a description, a route without, and two
\* custom sections
C18_Witness ==
  /\ area = "render"
  /\ render.kind = "llms.txt"
  /\ Len(render.routes) = 2
  /\ ResolvableDescription(render.routes[1]) # Undefined
  /\ ResolvableDescription(render.routes[2]) = Undefined
  /\ Len(render.options.customSections) = 2

--------------------------------------------------------------------------
(* Claims about getBestTitle, under SpecMeta *)

\* the text before the first pipe, all of it when it holds none
CutAtFirstPipe(s) ==
  LET pipes == {i \in 1..Len(s) : s[i] = "|"}
  IN IF pipes = {} THEN s
     ELSE SubSeq(s, 1, (CHOOSE i \in pipes : \A j \in pipes : i <= j) - 1)

\* the non-empty segments of the URL of the route
UrlSegments(route) ==
  SelectSeq(Split(route.urlPath, "/"), LAMBDA sg : Len(sg) > 0)

\* the words of the last URL segment, capitalized and joined by blanks
SegmentTitle(route) ==
  LET words == Split(UrlSegments(route)[Len(UrlSegments(route))], "-")
  IN Join([k \in 1..Len(words) |-> Capitalize(words[k])], <<" ">>)

\* the title the cascade of the claim yields
CascadeTitle(route) ==
  IF Truthy(MetaField(route, "title"))
  THEN Trim(CutAtFirstPipe(route.metadata.title))
  ELSE IF Truthy(OpenGraphField(route, "title")) THEN route.metadata.openGraph.title
  ELSE IF Len(UrlSegments(route)) > 0 THEN SegmentTitle(route)
  ELSE <<"H", "o", "m", "e">>

\* C19: the title getBestTitle returns is the metadata title cut at the
\* first pipe and trimmed, else the social-preview title, else the last URL
\* segment in capitalized words, else "Home"; and it is never empty.
C19_TitleCascadeNeverEmpty ==
  (area = "meta" /\ pc = "titled") =>
    /\ meta.title = CascadeTitle(meta.route)
    /\ meta.title # <<>>

\* the cascade alone, the claim about emptiness left out
TitleFollowsCascade ==
  (area = "meta" /\ pc = "titled") => meta.title = CascadeTitle(meta.route)

--------------------------------------------------------------------------
(* Claims about the scan of the app tree, under SpecScan *)

\* the names of the page file of a route, from the app directory down
RelativeNames(route) == Split(RelativeTo(AppDir, route.filePath), "/")

\* some default exclusion or some pattern of the caller matches the path
MatchesExclusion(relativePath) ==
  \/ \E k \in 1..Len(DefaultExclusions) : minimatch(relativePath, DefaultExclusions[k])
  \/ \E k \in 1..Len(ExcludePatternsOf(scan.options)) :
        minimatch(relativePath, scan.options.excludePatterns[k])

\* C21: no route scanAppDirectory returns has a relative path, or lies
\* under a directory with a relative path, that a default exclusion or a
\* pattern of the caller matches; no such directory is read; and every
\* route returned is a file page.tsx or page.ts of the tree, of type page.
C21_ExcludedPathsYieldNoRoute ==
  (area = "scan" /\ pc = "scanned") =>
    /\ \A i \in 1..Len(scan.routes) :
          LET names == RelativeNames(scan.routes[i])
          IN /\ \A n \in 1..Len(names) :
                   ~MatchesExclusion(Join(SubSeq(names, 1, n), <<"/">>))
             /\ names \in scan.files
             /\ names[Len(names)] \in {<<"p", "a", "g", "e", ".", "t", "s", "x">>,
                                       <<"p", "a", "g", "e", ".", "t", "s">>}
             /\ scan.routes[i].type = "page"
    /\ \A i \in 1..Len(scan.read) :
          \A n \in 1..Len(scan.read[i]) :
             ~MatchesExclusion(Join(SubSeq(scan.read[i], 1, n), <<"/">>))

\* a tree with a page under api, a page under admin and the root page,
\* scanned with the caller excluding **/admin/**: the root page alone is
\* returned
C21_Witness ==
  /\ area = "scan"
  /\ pc = "scanned"
  /\ <<<<"a", "p", "i">>, <<"p", "a", "g", "e", ".", "t", "s", "x">>>> \in scan.files
  /\ <<<<"a", "d", "m", "i", "n">>, <<"p", "a", "g", "e", ".", "t", "s", "x">>>> \in scan.files
  /\ Len(ExcludePatternsOf(scan.options)) = 2
  /\ Len(scan.routes) = 1
  /\ scan.routes[1].urlPath = <<"/">>

--------------------------------------------------------------------------
(* Claims about the headings and the fragments of a page, under SpecContent *)

\* the h1..h6 elements of a page file with a direct JSXText child that is
\* not all whitespace, in document order
TitledElements(file) ==
  IF "elements" \in DOMAIN file
  THEN SelectSeq(file.elements,
                 LAMBDA el : /\ el.tagType = "JSXIdentifier"
                             /\ HeadingLevel(el.tag) > 0
                             /\ \E k \in 1..Len(el.children) :
                                   /\ el.children[k].type = "JSXText"
                                   /\ Len(Trim(el.children[k].value)) > 0)
  ELSE <<>>

\* C22: every heading of an enriched route has the level 1..6 of its tag
\* and a text that is not empty and carries no whitespace at either end,
\* and the headings are those of the h-tags with a direct text child that
\* is not all whitespace, in document order.
C22_HeadingsTrimmedInOrder ==
  area = "content" =>
    \A i \in 1..Len(enrichedRoutes) :
       LET headings == enrichedRoutes[i].headings
           titled == TitledElements(pages[i].file)
       IN /\ \A k \in 1..Len(headings) :
                /\ headings[k].level \in 1..6
                /\ Len(headings[k].text) > 0
                /\ Trim(headings[k].text) = headings[k].text
          /\ Len(headings) = Len(titled)
          /\ \A k \in 1..Len(headings) : headings[k].level = HeadingLevel(titled[k].tag)

\* no two whitespace characters of the text are next to each other
NoWhitespaceRun(text) ==
  \A k \in 1..(Len(text) - 1) : ~(text[k] \in Whitespace /\ text[k + 1] \in Whitespace)

\* C24: with no maxContentLength given, the content of a page whose two or
\* more fragments hold no run of whitespace is the fragments in document
\* order with a blank line, two newlines, between them.
C24_FragmentsKeepBlankLine ==
  (area = "content" /\ contentOptions = <<>>) =>
    \A i \in 1..Len(enrichedRoutes) :
       (pages[i].file.kind = "module" /\ "content" \in DOMAIN enrichedRoutes[i]) =>
          LET fragments == ExtractedText(pages[i].file.nodes)
          IN (Len(fragments) >= 2 /\ \A k \in 1..Len(fragments) : NoWhitespaceRun(fragments[k]))
               => enrichedRoutes[i].content = Join(fragments, <<"\n", "\n">>)

--------------------------------------------------------------------------
(* Claims about the per-page switch and the route array of a run, under SpecRun *)

\* the per-page records among the generated files of the run
PerPageRecords == SelectSeq(run.generatedFiles, LAMBDA file : file.type = "per-page")

\* C23: a run that returns with generatePerPageMarkdown false has no
\* per-page record; with the option true or not set, every route that
\* filterRoutes keeps has a per-page record or a logged write error.
C23_PerPageEnabledByDefault ==
  (area = "run" /\ run.stage = "settled" /\ run.outcome = "fulfilled") =>
    IF "generatePerPageMarkdown" \in DOMAIN run.options /\ ~run.options.generatePerPageMarkdown
    THEN Len(PerPageRecords) = 0
    ELSE Len(PerPageRecords) + run.errorsLogged = Len(filterRoutes(run.routes, run.options))

--------------------------------------------------------------------------
(* Claims about the route array under ordering and rendering, under SpecOrder *)

\* C25: no call of sortRoutesByPriority, groupRoutesBySection,
\* generateLLMsTxt or generateLLMsFullTxt changes the route array it is
\* given: the array holds the same routes in the same order after the call.
C25_RouteArrayIsReadOnly ==
  [][area = "order" => routes' = routes]_vars

--------------------------------------------------------------------------
(* Claims about the paths of the per-page handlers, under SpecPerPage *)

\* C26: the handlers written by one call of generatePerPageRoutes for
\* routes of pairwise distinct URL paths have pairwise distinct file paths,
\* so no write of the call replaces a file written earlier in the call.
C26_WrittenPathsAreDistinct ==
  (area = "per-page"
     /\ \A i, j \in 1..Len(perPage.routes) :
           i # j => perPage.routes[i].urlPath # perPage.routes[j].urlPath) =>
    \A i, j \in 1..Len(perPage.disk) :
       i # j => perPage.disk[i].path # perPage.disk[j].path

\* the names of the sections of the map m that hold the route
SectionNamesOf(m, route) ==
  {m[k].section : k \in {n \in 1..Len(m) : \E p \in 1..Len(m[n].routes) : m[n].routes[p] = route}}

\* C27: groupBySection, the grouping of the two renderers, puts every route
\* of the array in the section groupRoutesBySection puts it in.
C27_GroupingsAgree ==
  (area = "order" /\ pc = "grouped") =>
    \A i \in 1..Len(routes) :
       SectionNamesOf(groupBySection(routes, options.sources), routes[i])
         = SectionNamesOf(sections, routes[i])

--------------------------------------------------------------------------
(* Claims about the entry of a route in the full digest, under SpecRender *)

\* the parts of the entry of the route: from the line of its URL up to the
\* separator line that closes the entry
EntryParts(route) ==
  LET at == {k \in 1..Len(render.parts) :
               render.parts[k] = UrlLine(buildUrl(route.urlPath, render.options.siteUrl))}
  IN {render.parts[j] :
        j \in {n \in 1..Len(render.parts) :
                 \E k \in at : /\ n > k
                               /\ \A h \in k..n : render.parts[h] # SeparatorLine}}

\* C28: in the full digest the entry of every route with headings or
\* content holds the block formatContentForLLM makes of the route: the
\* heading lines, then the content.
C28_EntryHoldsFormattedBlock ==
  (area = "render" /\ render.kind = "llms-full.txt") =>
    \A i \in 1..Len(render.routes) :
       Len(formatContentForLLM(render.routes[i])) > 0
         => formatContentForLLM(render.routes[i]) \in EntryParts(render.routes[i])

--------------------------------------------------------------------------
(* Claims about the handler of a per-page endpoint, under SpecEndpoint *)

\* the body of the template literal of the handler written
EndpointBody ==
  SubSeq(routeHandler, Len(HandlerPrefix) + 1, Len(routeHandler) - Len(PerPageHandlerSuffix))

\* the number of backslashes that stand directly before position k
RECURSIVE BackslashesBefore(_, _)
BackslashesBefore(text, k) ==
  IF k > 1 /\ text[k - 1] = "\\" THEN 1 + BackslashesBefore(text, k - 1) ELSE 0

\* C29: the template literal of the handler createRouteHandlerContent
\* writes evaluates to the markdown it was written from, and every
\* backtick and every dollar sign of its body is escaped: an odd number of
\* backslashes stands before it.
C29_EndpointReproducesMarkdown ==
  (area = "endpoint" /\ pc = "written") =>
    /\ EvaluatePerPageMarkdown(routeHandler) = [kind |-> "text", text |-> content]
    /\ \A k \in 1..Len(EndpointBody) :
          EndpointBody[k] \in {Backtick, "$"} => BackslashesBefore(EndpointBody, k) % 2 = 1

\* the markdown is a backslash, a backtick and a dollar sign
C29_Witness ==
  /\ area = "endpoint"
  /\ pc = "written"
  /\ content = <<"\\", Backtick, "$">>
  /\ EndpointBody = <<"\\", "\\", "\\", Backtick, "\\", "$">>

--------------------------------------------------------------------------
(* Claims about the completion callback of the hook, under SpecPluginLive *)

\* C30: the callback is never called more often than the hook has fired,
\* every firing that is not awaiting generateLLMFiles has had its callback
\* called, and a firing that awaits it has its callback called in the end,
\* whether the generation resolves or rejects.
C30_CallbackEventuallyCalledOnce ==
  /\ [](area = "plugin" => plugin.callbacks + plugin.inFlight = plugin.fired)
  /\ (area = "plugin" /\ plugin.inFlight > 0)
       ~> (plugin.inFlight = 0 /\ plugin.callbacks = plugin.fired)

\* the generation rejected, the error was logged, and each of three
\* firings, the one that ran the pipeline and two that were skipped, has
\* had its callback called
C30_Witness ==
  /\ area = "plugin"
  /\ plugin.fired = 3
  /\ plugin.started = 1
  /\ plugin.errorsLogged = 1
  /\ plugin.inFlight = 0
  /\ plugin.callbacks = 3

====
